---------------------------- MODULE Spec2Model ----------------------------
(***************************************************************************)
(* A model of pandas_streaming/core.py: typed streaming handles (Streaming,*)
(* StreamingDataFrame, StreamingSeries) over a push-based dataflow graph,  *)
(* the accumulator functions folding arriving chunks, and the grouped      *)
(* handle.  Chunks are small tables of exact rationals; the dataflow       *)
(* engine (streamz) and the table library (pandas) are modelled by the     *)
(* operations core.py calls on them.                                       *)
(***************************************************************************)
EXTENDS Integers, Sequences, FiniteSets, TLC

(***************************************************************************)
(* Bounds of the model.                                                    *)
(***************************************************************************)
\* The most nodes the graph may have, and the most handles the caller may
\* hold, when a method that makes new ones is called.
MaxNodes == 5

MaxHandles == 4

\* The most emit calls in a run, and the most where methods are called too.
MaxEmits == 4

MaxFeeds == 2

(***************************************************************************)
(* Sequence helpers.                                                       *)
(***************************************************************************)
Range(s) == {s[i] : i \in 1..Len(s)}

Last(s) == s[Len(s)]

Contains(s, e) == \E i \in 1..Len(s) : s[i] = e

IndexOf(s, e) == CHOOSE i \in 1..Len(s) : s[i] = e /\ \A j \in 1..(i - 1) : s[j] # e

\* Python's s[n:] for n >= 0: s without its first n elements.
Drop(s, n) == IF n >= Len(s) THEN <<>> ELSE SubSeq(s, n + 1, Len(s))

(***************************************************************************)
(* Cells are exact rationals <<n, d>> in lowest terms with d >= 0;         *)
(* d = 0 stands for the floating point specials: <<0, 0>> is NaN and       *)
(* <<1, 0>>, <<-1, 0>> are the infinities.                                 *)
(***************************************************************************)
Abs(n) == IF n < 0 THEN -n ELSE n

Sign(n) == IF n < 0 THEN -1 ELSE IF n = 0 THEN 0 ELSE 1

RECURSIVE Gcd(_, _)
Gcd(a, b) == IF b = 0 THEN a ELSE Gcd(b, a % b)

Norm(n, d) ==
    IF d = 0 THEN <<Sign(n), 0>>
    ELSE LET g == Gcd(Abs(n), Abs(d))
         IN  <<Sign(d) * (n \div g), Abs(d) \div g>>

Q(n) == <<n, 1>>

NaN == <<0, 0>>

IsNaN(a) == a = NaN

QAdd(a, b) ==
    IF a[2] = 0 /\ b[2] = 0
    THEN (IF a = b THEN a ELSE NaN)
    ELSE Norm(a[1] * b[2] + b[1] * a[2], a[2] * b[2])

QMul(a, b) == Norm(a[1] * b[1], a[2] * b[2])

QDiv(a, b) ==
    IF b[2] = 0
    THEN (IF a[2] = 0 \/ b = NaN THEN NaN ELSE Q(0))
    ELSE Norm(a[1] * b[2], a[2] * b[1])

QFloor(a) == IF a[2] = 0 THEN a ELSE Q(a[1] \div a[2])

QFloorDiv(a, b) == QFloor(QDiv(a, b))

QMod(a, b) ==
    IF a[2] = 0 \/ b[2] = 0 \/ b[1] = 0 THEN NaN
    ELSE QAdd(a, QMul(Q(-1), QMul(b, QFloorDiv(a, b))))

QLess(a, b) == a[1] * b[2] < b[1] * a[2]

\* numpy's round to the given number of decimals, halves to even.
Pow10(d) == IF d = 0 THEN 1 ELSE IF d = 1 THEN 10 ELSE 100

QRound(a, decimals) ==
    IF a[2] = 0 THEN a
    ELSE LET p == Pow10(decimals)
             n == a[1] * p
             fl == n \div a[2]
             twice == 2 * (n - fl * a[2])
             r == IF twice < a[2] THEN fl
                  ELSE IF twice > a[2] THEN fl + 1
                  ELSE IF fl % 2 = 0 THEN fl ELSE fl + 1
         IN  Norm(r, p)

RECURSIVE QSum(_)
\* sum() of a column: NaN cells are skipped, the empty sum is 0.
QSum(s) ==
    IF s = <<>> THEN Q(0)
    ELSE IF IsNaN(s[1]) THEN QSum(Tail(s))
    ELSE QAdd(s[1], QSum(Tail(s)))

RECURSIVE QCount(_)
\* count() of a column: the number of cells that are not NaN.
QCount(s) ==
    IF s = <<>> THEN 0
    ELSE (IF IsNaN(s[1]) THEN 0 ELSE 1) + QCount(Tail(s))

RECURSIVE SortQ(_)
\* The rationals of a finite set in increasing order.
SortQ(S) ==
    IF S = {} THEN <<>>
    ELSE LET m == CHOOSE x \in S : \A y \in S : ~QLess(y, x)
         IN  <<m>> \o SortQ(S \ {m})

(***************************************************************************)
(* Values.  Every value is a record whose field k names its kind:          *)
(*   DataFrame  columns (names), index (labels), rows (one tuple per row)  *)
(*   Series     name, index (labels), vals                                 *)
(*   int        a Python int;  scalar  a numpy number                      *)
(*   tuple, list, no_default (streamz.core.no_default), error (a raised    *)
(*   exception, named by its type).                                        *)
(* An index label is a rational or, for an index made of column names, the *)
(* 1-tuple of the name.                                                    *)
(***************************************************************************)
DataFrame(columns, index, rows) ==
    [k |-> "DataFrame", columns |-> columns, index |-> index, rows |-> rows]

Series(name, index, vals) ==
    [k |-> "Series", name |-> name, index |-> index, vals |-> vals]

PyInt(n) == [k |-> "int", v |-> Q(n)]

Scalar(q) == [k |-> "scalar", v |-> q]

PyTuple(items) == [k |-> "tuple", items |-> items]

PyList(items) == [k |-> "list", items |-> items]

no_default == [k |-> "no_default"]

None == [k |-> "None"]

Error(type) == [k |-> "error", type |-> type]

IsError(x) == x.k = "error"

IsFrame(x) == x.k = "DataFrame"

IsSeries(x) == x.k = "Series"

IsNumber(x) == x.k \in {"int", "scalar"}

NameLabel(c) == <<c>>

NameLabels(columns) == [j \in 1..Len(columns) |-> NameLabel(columns[j])]

\* The names of the model in alphabetical order, the order pandas sorts them.
NameOrder == <<"counts", "sums", "w", "x", "y", "z">>

LabelLess(a, b) ==
    IF Len(a) = 1 /\ Len(b) = 1
    THEN IndexOf(NameOrder, a[1]) < IndexOf(NameOrder, b[1])
    ELSE IF Len(a) = 2 /\ Len(b) = 2 THEN QLess(a, b)
    ELSE Len(a) > Len(b)

RECURSIVE SortLabels(_)
SortLabels(S) ==
    IF S = {} THEN <<>>
    ELSE LET m == CHOOSE x \in S : \A y \in S : ~LabelLess(y, x)
         IN  <<m>> \o SortLabels(S \ {m})

NoDuplicates(s) == \A i, j \in 1..Len(s) : s[i] = s[j] => i = j

\* The default RangeIndex of a table of n rows.
RangeIndex(n) == [i \in 1..n |-> Q(i - 1)]

\* The cells of the first column named c.
Col(df, c) == [i \in 1..Len(df.rows) |-> df.rows[i][IndexOf(df.columns, c)]]

ColAt(df, j) == [i \in 1..Len(df.rows) |-> df.rows[i][j]]

Positions(columns, c) == {j \in 1..Len(columns) : columns[j] = c}

RECURSIVE SortInts(_)
SortInts(S) ==
    IF S = {} THEN <<>>
    ELSE LET m == CHOOSE x \in S : \A y \in S : x <= y
         IN  <<m>> \o SortInts(S \ {m})

\* The frame of the columns at the given positions, in that order.
TakeColumns(df, pos) ==
    DataFrame([j \in 1..Len(pos) |-> df.columns[pos[j]]], df.index,
              [i \in 1..Len(df.rows) |-> [j \in 1..Len(pos) |-> df.rows[i][pos[j]]]])

(***************************************************************************)
(* x[index] and getattr(x, key) on a table.  A key is [k |-> "name",       *)
(* name |-> c] for one label or [k |-> "list", names |-> <<...>>].         *)
(***************************************************************************)
KeyName(c) == [k |-> "name", name |-> c]

KeyList(names) == [k |-> "list", names |-> names]

GetItem(x, key) ==
    IF ~IsFrame(x) THEN Error("TypeError")
    ELSE IF key.k = "name"
    THEN LET pos == Positions(x.columns, key.name)
         IN  IF pos = {} THEN Error("KeyError")
             ELSE IF Cardinality(pos) = 1
             THEN Series(key.name, x.index, Col(x, key.name))
             ELSE TakeColumns(x, SortInts(pos))
    ELSE IF \E i \in 1..Len(key.names) : Positions(x.columns, key.names[i]) = {}
         THEN Error("KeyError")
         ELSE TakeColumns(x, [i \in 1..Len(key.names) |-> IndexOf(x.columns, key.names[i])])

GetAttr(x, name) ==
    IF IsFrame(x) /\ Contains(x.columns, name) THEN GetItem(x, KeyName(name))
    ELSE Error("AttributeError")

(***************************************************************************)
(* Reductions of one chunk: x.sum(), x.count(), len(x).                    *)
(***************************************************************************)
Sum(x) ==
    CASE IsFrame(x) ->
           Series("", NameLabels(x.columns),
                  [j \in 1..Len(x.columns) |-> QSum(ColAt(x, j))])
      [] IsSeries(x) -> Scalar(QSum(x.vals))
      [] OTHER -> Error("AttributeError")

Count(x) ==
    CASE IsFrame(x) ->
           Series("", NameLabels(x.columns),
                  [j \in 1..Len(x.columns) |-> Q(QCount(ColAt(x, j)))])
      [] IsSeries(x) -> Scalar(Q(QCount(x.vals)))
      [] OTHER -> Error("AttributeError")

PyLen(x) ==
    CASE IsFrame(x) -> Len(x.rows)
      [] IsSeries(x) -> Len(x.vals)
      [] x.k \in {"list", "tuple"} -> Len(x.items)
      [] OTHER -> -1

(***************************************************************************)
(* Arithmetic on values, aligned on labels the way pandas aligns it.       *)
(* fill is the fill_value of Series.add / DataFrame.add; NaN means none.   *)
(***************************************************************************)
CellOp(op, x, y) ==
    CASE op = "add" -> QAdd(x, y)
      [] op = "mul" -> QMul(x, y)
      [] op = "mod" -> QMod(x, y)
      [] op = "truediv" -> QDiv(x, y)
      [] op = "floordiv" -> QFloorDiv(x, y)

FillOp(op, x, y, fill) ==
    IF IsNaN(x) /\ IsNaN(y) THEN NaN
    ELSE CellOp(op, IF IsNaN(x) THEN fill ELSE x, IF IsNaN(y) THEN fill ELSE y)

Lookup(index, vals, l) ==
    IF Contains(index, l) THEN vals[IndexOf(index, l)] ELSE NaN

AlignLabels(ia, ib) == IF ia = ib THEN ia ELSE SortLabels(Range(ia) \cup Range(ib))

AlignedSeries(op, a, b, fill) ==
    LET name == IF a.name = b.name THEN a.name ELSE ""
    IN  IF a.index = b.index
        THEN Series(name, a.index,
                    [i \in 1..Len(a.vals) |-> FillOp(op, a.vals[i], b.vals[i], fill)])
        ELSE IF ~NoDuplicates(a.index) \/ ~NoDuplicates(b.index)
        THEN Error("ValueError")
        ELSE LET idx == AlignLabels(a.index, b.index)
             IN  Series(name, idx,
                        [i \in 1..Len(idx) |->
                            FillOp(op, Lookup(a.index, a.vals, idx[i]),
                                   Lookup(b.index, b.vals, idx[i]), fill)])

\* The cell of frame df at row label l and column c, NaN where it has none.
CellAt(df, l, c) ==
    IF Contains(df.index, l) /\ Contains(df.columns, c)
    THEN df.rows[IndexOf(df.index, l)][IndexOf(df.columns, c)]
    ELSE NaN

AlignedFrames(op, a, b, fill) ==
    IF a.index = b.index /\ a.columns = b.columns
    THEN DataFrame(a.columns, a.index,
                   [i \in 1..Len(a.rows) |-> [j \in 1..Len(a.columns) |->
                       FillOp(op, a.rows[i][j], b.rows[i][j], fill)]])
    ELSE IF ~NoDuplicates(a.index) \/ ~NoDuplicates(b.index)
            \/ ~NoDuplicates(a.columns) \/ ~NoDuplicates(b.columns)
    THEN Error("ValueError")
    ELSE LET idx == AlignLabels(a.index, b.index)
             cols == IF a.columns = b.columns THEN a.columns
                     ELSE LET u == SortLabels(Range(NameLabels(a.columns))
                                              \cup Range(NameLabels(b.columns)))
                          IN  [j \in 1..Len(u) |-> u[j][1]]
         IN  DataFrame(cols, idx,
                       [i \in 1..Len(idx) |-> [j \in 1..Len(cols) |->
                           FillOp(op, CellAt(a, idx[i], cols[j]),
                                  CellAt(b, idx[i], cols[j]), fill)]])

MapCells(x, F(_)) ==
    IF IsFrame(x)
    THEN DataFrame(x.columns, x.index,
                   [i \in 1..Len(x.rows) |-> [j \in 1..Len(x.columns) |-> F(x.rows[i][j])]])
    ELSE Series(x.name, x.index, [i \in 1..Len(x.vals) |-> F(x.vals[i])])

BinOp(op, a, b, fill) ==
    CASE IsError(a) -> a
      [] IsError(b) -> b
      [] IsNumber(a) /\ IsNumber(b) ->
           [k |-> IF a.k = "int" /\ b.k = "int" /\ op # "truediv" THEN "int" ELSE "scalar",
            v |-> CellOp(op, a.v, b.v)]
      [] IsNumber(a) /\ (IsFrame(b) \/ IsSeries(b)) ->
           LET F(c) == CellOp(op, a.v, c) IN MapCells(b, F)
      [] (IsFrame(a) \/ IsSeries(a)) /\ IsNumber(b) ->
           LET F(c) == CellOp(op, c, b.v) IN MapCells(a, F)
      [] IsSeries(a) /\ IsSeries(b) -> AlignedSeries(op, a, b, fill)
      [] IsFrame(a) /\ IsFrame(b) -> AlignedFrames(op, a, b, fill)
      [] OTHER -> Error("TypeError")

Round(x, decimals) ==
    CASE IsFrame(x) \/ IsSeries(x) ->
           LET F(c) == QRound(c, decimals) IN MapCells(x, F)
      [] IsNumber(x) -> [k |-> x.k, v |-> QRound(x.v, decimals)]
      [] OTHER -> Error("AttributeError")

(***************************************************************************)
(* Grouping a frame: obj.groupby(grouper), g[index], g.sum(), g.count(),   *)
(* g.mean().  A grouper is a column name (KeyName) or a Series of keys,    *)
(* which pandas reindexes to the frame's index.                            *)
(***************************************************************************)
GroupBy(obj, grouper) ==
    IF ~IsFrame(obj) THEN Error("AttributeError")
    ELSE IF grouper.k = "name"
    THEN IF ~Contains(obj.columns, grouper.name) THEN Error("KeyError")
         ELSE [k |-> "groupby", obj |-> obj, keys |-> Col(obj, grouper.name),
               cols |-> SortInts({j \in 1..Len(obj.columns) : obj.columns[j] # grouper.name}),
               single |-> FALSE]
    ELSE IF grouper.k = "Series"
    THEN IF grouper.index # obj.index /\ ~NoDuplicates(grouper.index)
         THEN Error("ValueError")
         ELSE [k |-> "groupby", obj |-> obj,
               keys |-> IF grouper.index = obj.index THEN grouper.vals
                        ELSE [i \in 1..Len(obj.index) |->
                                 Lookup(grouper.index, grouper.vals, obj.index[i])],
               cols |-> [j \in 1..Len(obj.columns) |-> j],
               single |-> FALSE]
    ELSE Error("ValueError")

GroupSelect(g, index) ==
    IF IsError(g) \/ index.k = "None" THEN g
    ELSE IF index.k = "name"
    THEN IF ~Contains(g.obj.columns, index.name) THEN Error("KeyError")
         ELSE [g EXCEPT !.cols = <<IndexOf(g.obj.columns, index.name)>>, !.single = TRUE]
    ELSE IF \E i \in 1..Len(index.names) : ~Contains(g.obj.columns, index.names[i])
         THEN Error("KeyError")
         ELSE [g EXCEPT !.cols = [i \in 1..Len(index.names) |->
                                     IndexOf(g.obj.columns, index.names[i])]]

GroupKeys(g) == SortQ({g.keys[i] : i \in 1..Len(g.keys)} \ {NaN})

\* The cells of column j in the rows of group key.
GroupCells(g, key, j) ==
    LET rows == SortInts({i \in 1..Len(g.keys) : g.keys[i] = key})
    IN  [n \in 1..Len(rows) |-> g.obj.rows[rows[n]][j]]

GroupAgg(g, F(_)) ==
    IF IsError(g) THEN g
    ELSE LET keys == GroupKeys(g)
         IN  IF g.single
             THEN Series(g.obj.columns[g.cols[1]], keys,
                         [i \in 1..Len(keys) |-> F(GroupCells(g, keys[i], g.cols[1]))])
             ELSE DataFrame([j \in 1..Len(g.cols) |-> g.obj.columns[g.cols[j]]], keys,
                            [i \in 1..Len(keys) |-> [j \in 1..Len(g.cols) |->
                                F(GroupCells(g, keys[i], g.cols[j]))]])

GroupSum(g) == GroupAgg(g, QSum)

GroupCount(g) == LET F(s) == Q(QCount(s)) IN GroupAgg(g, F)

GroupMean(g) == LET F(s) == QDiv(QSum(s), Q(QCount(s))) IN GroupAgg(g, F)

(***************************************************************************)
(* Concatenation, slicing and column assignment.                           *)
(***************************************************************************)
\* pd.concat([a, b]): b's rows after a's rows.
ConcatRows(a, b) ==
    CASE IsFrame(a) /\ IsFrame(b) /\ a.columns = b.columns ->
           DataFrame(a.columns, a.index \o b.index, a.rows \o b.rows)
      [] IsFrame(a) /\ IsFrame(b) /\ a.columns # b.columns ->
           IF ~NoDuplicates(a.columns) \/ ~NoDuplicates(b.columns)
           THEN Error("ValueError")
           ELSE LET u == SortLabels(Range(NameLabels(a.columns))
                                    \cup Range(NameLabels(b.columns)))
                    cols == [j \in 1..Len(u) |-> u[j][1]]
                    Widen(df) == [i \in 1..Len(df.rows) |-> [j \in 1..Len(cols) |->
                                    IF Contains(df.columns, cols[j])
                                    THEN df.rows[i][IndexOf(df.columns, cols[j])]
                                    ELSE NaN]]
                IN  DataFrame(cols, a.index \o b.index, Widen(a) \o Widen(b))
      [] IsSeries(a) /\ IsSeries(b) ->
           Series(IF a.name = b.name THEN a.name ELSE "", a.index \o b.index,
                  a.vals \o b.vals)
      [] OTHER -> Error("TypeError")

\* x.iloc[start:] with Python's slice bounds.
Iloc(x, start) ==
    LET n == PyLen(x)
        from == IF start < 0 THEN (IF n + start < 0 THEN 0 ELSE n + start)
                ELSE (IF start > n THEN n ELSE start)
    IN  IF IsFrame(x) THEN DataFrame(x.columns, Drop(x.index, from), Drop(x.rows, from))
        ELSE Series(x.name, Drop(x.index, from), Drop(x.vals, from))

IndexMax(index) == CHOOSE m \in Range(index) : \A l \in Range(index) : ~QLess(m, l)

Monotonic(index) == \A i \in 1..(Len(index) - 1) : ~QLess(index[i + 1], index[i])

\* x.loc[bound:] on a numeric index: the rows from the first label >= bound.
Loc(x, bound) ==
    LET idx == x.index
        keep == {i \in 1..Len(idx) : ~QLess(idx[i], bound)}
        from == IF keep = {} THEN Len(idx) ELSE (CHOOSE i \in keep : \A j \in keep : i <= j) - 1
        at == {i \in 1..Len(idx) : idx[i] = bound}
    IN  IF Monotonic(idx) THEN Iloc(x, from)
        ELSE IF Cardinality(at) = 1 THEN Iloc(x, (CHOOSE i \in at : TRUE) - 1)
        ELSE Error("KeyError")

\* The column a value makes in a frame with the given index: a number is
\* repeated, a Series is reindexed.
AsColumn(index, value) ==
    IF IsNumber(value) THEN [i \in 1..Len(index) |-> value.v]
    ELSE IF value.index = index THEN value.vals
    ELSE [i \in 1..Len(index) |-> Lookup(value.index, value.vals, index[i])]

\* df.assign(key=value): the column replaced where it stands, else appended.
Assign(df, key, value) ==
    IF ~IsFrame(df) THEN Error("AttributeError")
    ELSE IF ~(IsNumber(value) \/ IsSeries(value)) THEN Error("ValueError")
    ELSE IF IsSeries(value) /\ value.index # df.index /\ ~NoDuplicates(value.index)
    THEN Error("ValueError")
    ELSE LET col == AsColumn(df.index, value)
         IN  IF Contains(df.columns, key)
             THEN DataFrame(df.columns, df.index,
                            [i \in 1..Len(df.rows) |-> [j \in 1..Len(df.columns) |->
                                IF df.columns[j] = key THEN col[i] ELSE df.rows[i][j]]])
             ELSE DataFrame(Append(df.columns, key), df.index,
                            [i \in 1..Len(df.rows) |-> Append(df.rows[i], col[i])])

RECURSIVE AssignAll(_, _, _)
\* df.assign(**kwargs) with the keywords in the given order.
AssignAll(df, keys, values) ==
    IF keys = <<>> \/ IsError(df) THEN df
    ELSE AssignAll(Assign(df, keys[1], values[1]), Tail(keys), Tail(values))

\* The columns of a table as a frame.
AsFrame(x) ==
    IF IsFrame(x) THEN x
    ELSE DataFrame(<<x.name>>, x.index, [i \in 1..Len(x.vals) |-> <<x.vals[i]>>])

RECURSIVE JoinColumns(_)
\* pd.concat(tup, axis=1): the columns side by side, rows aligned on the index.
JoinColumns(items) ==
    IF Len(items) = 1 THEN AsFrame(items[1])
    ELSE LET a == JoinColumns(SubSeq(items, 1, Len(items) - 1))
             b == AsFrame(Last(items))
         IN  IF IsError(a) THEN a
             ELSE IF a.index = b.index
             THEN DataFrame(a.columns \o b.columns, a.index,
                            [i \in 1..Len(a.rows) |-> a.rows[i] \o b.rows[i]])
             ELSE IF ~NoDuplicates(a.index) \/ ~NoDuplicates(b.index)
             THEN Error("ValueError")
             ELSE LET idx == AlignLabels(a.index, b.index)
                      Row(df, l) == IF Contains(df.index, l)
                                    THEN df.rows[IndexOf(df.index, l)]
                                    ELSE [j \in 1..Len(df.columns) |-> NaN]
                  IN  DataFrame(a.columns \o b.columns, idx,
                                [i \in 1..Len(idx) |-> Row(a, idx[i]) \o Row(b, idx[i])])

\* concat, the function StreamingDataFrame.assign maps over the zipped ticks.
concat(tup, columns) ==
    IF tup.k # "tuple" \/ \E i \in 1..Len(tup.items) :
                              ~(IsFrame(tup.items[i]) \/ IsSeries(tup.items[i]))
    THEN Error("TypeError")
    ELSE LET result == JoinColumns(tup.items)
         IN  IF IsError(result) THEN result
             ELSE IF Len(result.columns) # Len(columns) THEN Error("ValueError")
             ELSE DataFrame(columns, result.index, result.rows)

(***************************************************************************)
(* The accumulator functions of core.py.  A fold step returns the new      *)
(* state, or the pair (state, result) as a tuple; a raised exception is an *)
(* error value.                                                            *)
(***************************************************************************)
\* accumulator[label] of the running-mean state: a column of the frame
\* state, an element of the series state.
StateGet(accumulator, label) ==
    IF IsFrame(accumulator)
    THEN Series(label, accumulator.index, Col(accumulator, label))
    ELSE Scalar(accumulator.vals[IndexOf(accumulator.index, NameLabel(label))])

\* accumulator[label] = value on a copy of the running-mean state.
StateSet(accumulator, label, value) ==
    IF IsError(value) THEN value
    ELSE IF IsFrame(accumulator) THEN Assign(accumulator, label, value)
    ELSE IF ~IsNumber(value) THEN Error("ValueError")
    ELSE Series(accumulator.name, accumulator.index,
                [i \in 1..Len(accumulator.vals) |->
                    IF accumulator.index[i] = NameLabel(label) THEN value.v
                    ELSE accumulator.vals[i]])

\* The tail of _accumulate_mean: the result from the updated state.
MeanResult(acc, result) ==
    IF IsError(acc) THEN acc
    ELSE IF IsError(result) THEN result
    ELSE PyTuple(<<acc, result>>)

MeanRatio(acc) ==
    IF IsError(acc) THEN acc
    ELSE BinOp("truediv", StateGet(acc, "sums"), StateGet(acc, "counts"), NaN)

MeanCounts(acc, new) ==
    IF IsError(acc) THEN acc
    ELSE StateSet(acc, "counts", BinOp("add", StateGet(acc, "counts"), Count(new), NaN))

MeanSums(accumulator, new) ==
    StateSet(accumulator, "sums", BinOp("add", StateGet(accumulator, "sums"), Sum(new), NaN))

MeanStep(accumulator, acc) == MeanResult(acc, MeanRatio(acc))

\* A variant that returns the ratio of the previous state.
_accumulate_mean_stale(accumulator, new) ==
    MeanResult(MeanCounts(MeanSums(accumulator, new), new), MeanRatio(accumulator))

_accumulate_mean(accumulator, new) ==
    MeanStep(accumulator, MeanCounts(MeanSums(accumulator, new), new))

\* A variant that drops the accumulator.
_accumulate_sum_forgets(accumulator, new) == Sum(new)

_accumulate_sum(accumulator, new) == BinOp("add", accumulator, Sum(new), NaN)

\* A variant of _accumulate_mean without the copy: the caller's object is
\* the one updated.
MeanGiven_inplace(accumulator, new) ==
    IF IsError(MeanCounts(MeanSums(accumulator, new), new)) THEN accumulator
    ELSE MeanCounts(MeanSums(accumulator, new), new)

\* The object the caller passed to _accumulate_mean, after the call: the
\* function updates a copy (accumulator = accumulator.copy()).
MeanGiven(accumulator, new) == accumulator

\* The grouped chunk both grouped folds start from: the zipped pair is
\* unpacked, the chunk grouped and the selection applied.
Grouped(new, grouper, index) ==
    IF new.k = "tuple"
    THEN IF grouper.k # "None" THEN Error("AssertionError")
         ELSE IF Len(new.items) # 2 THEN Error("ValueError")
         ELSE GroupSelect(GroupBy(new.items[1], new.items[2]), index)
    ELSE IF grouper.k = "None" THEN Error("TypeError")
    ELSE GroupSelect(GroupBy(new, grouper), index)

\* accumulator.add(other, fill_value=0)
AddFill(accumulator, other) ==
    IF IsError(other) THEN other
    ELSE IF ~(IsFrame(accumulator) \/ IsSeries(accumulator)) THEN Error("AttributeError")
    ELSE BinOp("add", accumulator, other, Q(0))

AddNoFill(accumulator, other) ==
    IF IsError(other) THEN other
    ELSE IF ~(IsFrame(accumulator) \/ IsSeries(accumulator)) THEN Error("AttributeError")
    ELSE BinOp("add", accumulator, other, NaN)

\* A variant that keeps the sums of the last chunk only.
GroupbySumStep_last(accumulator, gsum) == gsum

\* A variant that adds without fill_value.
GroupbySumStep_nofill(accumulator, gsum) ==
    IF IsError(gsum) \/ accumulator.k = "int" THEN gsum
    ELSE AddNoFill(accumulator, gsum)

GroupbySumStep(accumulator, gsum) ==
    IF IsError(gsum) \/ accumulator.k = "int" THEN gsum
    ELSE AddFill(accumulator, gsum)

_accumulate_groupby_sum(accumulator, new, grouper, index) ==
    GroupbySumStep(accumulator, GroupSum(Grouped(new, grouper, index)))

GroupbyMeanResult(sums, counts) ==
    IF IsError(sums) THEN sums
    ELSE IF IsError(counts) THEN counts
    ELSE PyTuple(<<PyTuple(<<sums, counts>>), BinOp("truediv", sums, counts, NaN)>>)

\* A variant that keeps the counts of the last chunk only.
GroupbyMeanStep_counts(accumulator, g) ==
    IF IsError(g) THEN g
    ELSE IF accumulator.k # "tuple" THEN Error("TypeError")
    ELSE IF Len(accumulator.items) # 2 THEN Error("ValueError")
    ELSE IF accumulator.items[1].k = "int"
    THEN GroupbyMeanResult(GroupSum(g), GroupCount(g))
    ELSE GroupbyMeanResult(AddFill(accumulator.items[1], GroupSum(g)), GroupCount(g))

GroupbyMeanStep(accumulator, g) ==
    IF IsError(g) THEN g
    ELSE IF accumulator.k # "tuple" THEN Error("TypeError")
    ELSE IF Len(accumulator.items) # 2 THEN Error("ValueError")
    ELSE IF accumulator.items[1].k = "int"
    THEN GroupbyMeanResult(GroupSum(g), GroupCount(g))
    ELSE GroupbyMeanResult(AddFill(accumulator.items[1], GroupSum(g)),
                           AddFill(accumulator.items[2], GroupCount(g)))

_accumulate_groupby_mean(accumulator, new, grouper, index) ==
    GroupbyMeanStep(accumulator, Grouped(new, grouper, index))

\* A window is [k |-> "int", n |-> rows] or [k |-> "Timedelta", n |-> span].
IntWindow(n) == [k |-> "int", n |-> n]

Timedelta(n) == [k |-> "Timedelta", n |-> n]

\* out = accumulator if len(accumulator) >= min_periods else []
RollOut(acc, min_periods) ==
    IF IsError(acc) THEN acc
    ELSE PyTuple(<<acc, IF PyLen(acc) >= min_periods THEN acc ELSE PyList(<<>>)>>)

RollTrim(cat, window) ==
    IF IsError(cat) THEN cat
    ELSE IF window.k = "int" THEN Iloc(cat, -window.n)
    ELSE IF window.k = "Timedelta"
    THEN (IF cat.index = <<>> THEN Error("TypeError")
          ELSE Loc(cat, QAdd(IndexMax(cat.index), Q(-window.n))))
    ELSE cat

_roll(accumulator, new, window, min_periods) ==
    RollOut(RollTrim(ConcatRows(accumulator, new), window), min_periods)

(***************************************************************************)
(* Functions handed to the dataflow engine, as descriptors [fn |-> ...]    *)
(* with their bound arguments, and their application to a chunk.           *)
(***************************************************************************)
Operator(name, other) == [fn |-> name, other |-> other]

MapFunc(func, x) ==
    CASE func.fn \in {"add", "mul", "mod", "truediv", "floordiv"} ->
           BinOp(func.fn, x, func.other, NaN)
      [] func.fn = "getitem" -> GetItem(x, func.index)
      [] func.fn = "getattr" -> GetAttr(x, func.key)
      [] func.fn = "round" -> Round(x, func.decimals)
      [] func.fn = "DataFrame.assign" -> Assign(x, func.key, func.value)
      [] func.fn = "concat" -> concat(x, func.columns)
      [] OTHER -> Error("TypeError")

FoldFunc(func, state, x) ==
    CASE func.fn = "_accumulate_sum" -> _accumulate_sum(state, x)
      [] func.fn = "_accumulate_mean" ->
           IF IsFrame(state) \/ IsSeries(state) THEN _accumulate_mean(state, x)
           ELSE Error("AttributeError")
      [] func.fn = "_accumulate_groupby_sum" ->
           _accumulate_groupby_sum(state, x, func.grouper, func.index)
      [] func.fn = "_accumulate_groupby_mean" ->
           _accumulate_groupby_mean(state, x, func.grouper, func.index)
      [] func.fn = "_roll" -> _roll(state, x, func.window, func.min_periods)
      [] OTHER -> Error("TypeError")

\* The accumulator object a fold function was given, as the call leaves it:
\* _accumulate_sum, the grouped folds and _roll build new objects.
Left(func, accumulator, new) ==
    IF func.fn = "_accumulate_mean" /\ (IsFrame(accumulator) \/ IsSeries(accumulator))
    THEN MeanGiven(accumulator, new)
    ELSE accumulator

\* The predicate of rolling's filter: lambda x: len(x) >= min_periods.
FilterPred(func, x) == PyLen(x) >= func.min_periods

(***************************************************************************)
(* The dataflow graph.  A node is a record                                 *)
(*   op            "source", "map", "accumulate", "zip" or "filter"        *)
(*   ups           the nodes it listens to, in order                       *)
(*   func          the function it applies                                 *)
(*   state         an accumulate node's state; returns_state its flag      *)
(*   buffers       a zip node's queue per upstream                         *)
(*   out           every value the node has emitted downstream, in order   *)
(*   since         how many values its first upstream had emitted when the *)
(*                 node was attached                                       *)
(* A graph in propagation is [nodes, exc]: exc is None until a function    *)
(* raises, and then nothing more is delivered.                             *)
(***************************************************************************)
Node(op, ups, func, state, returns_state, since) ==
    [op |-> op, ups |-> ups, func |-> func, state |-> state,
     returns_state |-> returns_state,
     buffers |-> [i \in 1..Len(ups) |-> <<>>], out |-> <<>>, since |-> since]

ZipNode(ns, ups) == Node("zip", ups, None, None, FALSE, Len(ns[ups[1]].out))

SourceNode == Node("source", <<>>, None, None, FALSE, 0)

Occurrences(s, e) == Cardinality({i \in 1..Len(s) : s[i] = e})

RECURSIVE Repeat(_, _)
Repeat(e, n) == IF n = 0 THEN <<>> ELSE <<e>> \o Repeat(e, n - 1)

RECURSIVE ChildrenFrom(_, _, _)
\* The nodes listening to node id, in the order they were attached; a node
\* listening twice is listed twice.
ChildrenFrom(ns, id, c) ==
    IF c > Len(ns) THEN <<>>
    ELSE Repeat(c, Occurrences(ns[c].ups, id)) \o ChildrenFrom(ns, id, c + 1)

Children(ns, id) == ChildrenFrom(ns, id, 1)

Raise(G, e) == [G EXCEPT !.exc = e]

RECURSIVE StreamEmit(_, _, _)
RECURSIVE UpdateAll(_, _, _, _)
RECURSIVE Update(_, _, _, _)
RECURSIVE Mapped(_, _, _)
RECURSIVE Filtered(_, _, _)
RECURSIVE AccumulateUpdate(_, _, _)
RECURSIVE Seeded(_, _, _)
RECURSIVE Folded(_, _, _, _)
RECURSIVE Folded_forgets(_, _, _, _)
RECURSIVE ZipUpdate(_, _, _, _)

\* Stream.emit(x) on node id: every listener is updated in turn.
StreamEmit(G, id, x) ==
    IF G.exc.k # "None" THEN G
    ELSE UpdateAll([G EXCEPT !.nodes[id].out = Append(@, x)],
                   Children(G.nodes, id), x, id)

UpdateAll(G, cs, x, who) ==
    IF cs = <<>> \/ G.exc.k # "None" THEN G
    ELSE UpdateAll(Update(G, cs[1], x, who), Tail(cs), x, who)

\* A variant of zip.update that pairs a value with the oldest value queued on
\* the other side and leaves that one queued.
ZipUpdate_latest(G, c, x, who) ==
    LET i == IndexOf(G.nodes[c].ups, who)
        queued == [G.nodes[c].buffers EXCEPT ![i] = Append(@, x)]
    IN  IF \A j \in 1..Len(queued) : queued[j] # <<>>
        THEN StreamEmit([G EXCEPT !.nodes[c].buffers =
                                      [j \in 1..Len(queued) |->
                                          IF j = i THEN Tail(queued[j]) ELSE queued[j]]],
                        c, PyTuple([j \in 1..Len(queued) |-> Head(queued[j])]))
        ELSE [G EXCEPT !.nodes[c].buffers = queued]

\* zip.update: the value is queued; a tuple is emitted when the queue it
\* joined was empty and no queue is empty now.
ZipUpdate(G, c, x, who) ==
    LET i == IndexOf(G.nodes[c].ups, who)
        queued == [G.nodes[c].buffers EXCEPT ![i] = Append(@, x)]
    IN  IF Len(queued[i]) = 1 /\ \A j \in 1..Len(queued) : queued[j] # <<>>
        THEN StreamEmit([G EXCEPT !.nodes[c].buffers =
                                      [j \in 1..Len(queued) |-> Tail(queued[j])]],
                        c, PyTuple([j \in 1..Len(queued) |-> Head(queued[j])]))
        ELSE [G EXCEPT !.nodes[c].buffers = queued]

\* accumulate.update (scan is its alias).  Without a start the first value
\* becomes the state; whether it is also emitted depends on the engine's
\* version (G.seed).
Seeded(G, c, x) == IF G.seed THEN StreamEmit(G, c, x) ELSE G

\* A variant that forgets the state when the function raises.
Folded_forgets(G, c, returns_state, result) ==
    IF IsError(result) THEN Raise([G EXCEPT !.nodes[c].state = no_default], result)
    ELSE IF ~returns_state
    THEN StreamEmit([G EXCEPT !.nodes[c].state = result], c, result)
    ELSE IF result.k # "tuple" \/ PyLen(result) # 2 THEN Raise(G, Error("TypeError"))
    ELSE StreamEmit([G EXCEPT !.nodes[c].state = result.items[1]], c, result.items[2])

Folded(G, c, returns_state, result) ==
    IF IsError(result) THEN Raise(G, result)
    ELSE IF ~returns_state
    THEN StreamEmit([G EXCEPT !.nodes[c].state = result], c, result)
    ELSE IF result.k # "tuple" \/ PyLen(result) # 2 THEN Raise(G, Error("TypeError"))
    ELSE StreamEmit([G EXCEPT !.nodes[c].state = result.items[1]], c, result.items[2])

AccumulateUpdate(G, c, x) ==
    IF G.nodes[c].state.k = "no_default"
    THEN Seeded([G EXCEPT !.nodes[c].state = x], c, x)
    ELSE Folded(G, c, G.nodes[c].returns_state,
                FoldFunc(G.nodes[c].func, G.nodes[c].state, x))

Mapped(G, c, y) == IF IsError(y) THEN Raise(G, y) ELSE StreamEmit(G, c, y)

Filtered(G, c, x) ==
    IF PyLen(x) < 0 THEN Raise(G, Error("TypeError"))
    ELSE IF FilterPred(G.nodes[c].func, x) THEN StreamEmit(G, c, x)
    ELSE G

Update(G, c, x, who) ==
    CASE G.nodes[c].op = "map" -> Mapped(G, c, MapFunc(G.nodes[c].func, x))
      [] G.nodes[c].op = "filter" -> Filtered(G, c, x)
      [] G.nodes[c].op = "accumulate" -> AccumulateUpdate(G, c, x)
      [] G.nodes[c].op = "zip" -> ZipUpdate(G, c, x, who)
      [] OTHER -> G

(***************************************************************************)
(* Handles.  A handle is [cls, stream, example]: its class, the node it    *)
(* wraps and its example.  A method returns [nodes, handle, exc]: the      *)
(* graph with the nodes it attached, the handle it returns, and exc the    *)
(* exception it raised (then nothing was attached).                        *)
(***************************************************************************)
Handle(cls, stream, example) == [cls |-> cls, stream |-> stream, example |-> example]

\* _subtype of each class, as a test on a value.
IsSubtype(cls, x) ==
    CASE cls = "StreamingDataFrame" -> IsFrame(x)
      [] cls = "StreamingSeries" -> IsSeries(x)
      [] OTHER -> TRUE

\* The class chosen for a derived handle from its example.
Wrap(self, stream, example) ==
    IF IsFrame(example) THEN Handle("StreamingDataFrame", stream, example)
    ELSE IF IsSeries(example) THEN Handle("StreamingSeries", stream, example)
    ELSE Handle("Streaming", stream, example)

Returned(ns, handle) == [nodes |-> ns, handle |-> handle, exc |-> None]

Raised(ns, e) == [nodes |-> ns, handle |-> None, exc |-> e]

\* The tail of map_partitions and accumulate_partitions: the node is
\* attached and the handle wrapped, once the example is known.
Derived(ns, self, node, example) ==
    IF IsError(example) THEN Raised(ns, example)
    ELSE Returned(Append(ns, node), Wrap(self, Len(ns) + 1, example))

MapNode(ns, self, func) ==
    Node("map", <<self.stream>>, func, None, FALSE, Len(ns[self.stream].out))

\* A variant that hands the parent's example on.
map_partitions_keeps(ns, self, func, example) ==
    Derived(ns, self, MapNode(ns, self, func), self.example)

map_partitions(ns, self, func, example) ==
    Derived(ns, self, MapNode(ns, self, func),
            IF example.k = "None" THEN MapFunc(func, self.example) ELSE example)

\* if returns_state: _, example = example
Unpacked(returns_state, example) ==
    IF ~returns_state \/ IsError(example) THEN example
    ELSE IF example.k # "tuple" \/ PyLen(example) # 2 THEN Error("TypeError")
    ELSE example.items[2]

AccumulateNode(ns, self, func, start, returns_state) ==
    Node("accumulate", <<self.stream>>, func, start, returns_state,
         Len(ns[self.stream].out))

accumulate_partitions(ns, self, func, start, returns_state, example) ==
    Derived(ns, self,
            AccumulateNode(ns, self, func,
                           IF example.k = "None" THEN Left(func, start, self.example)
                           ELSE start,
                           returns_state),
            Unpacked(returns_state,
                     IF example.k = "None" THEN FoldFunc(func, start, self.example)
                     ELSE example))

Min(a, b) == IF a < b THEN a ELSE b

\* A variant that also takes a chunk with the first columns of the example.
verify_prefix(self, x) ==
    IF ~IsSubtype(self.cls, x) THEN Error("TypeError")
    ELSE IF self.cls = "StreamingDataFrame"
            /\ x.columns # SubSeq(self.example.columns, 1, Min(Len(x.columns), Len(self.example.columns)))
    THEN Error("IndexError")
    ELSE None

\* A variant that compares the columns as sets.
verify_unordered(self, x) ==
    IF ~IsSubtype(self.cls, x) THEN Error("TypeError")
    ELSE IF self.cls = "StreamingDataFrame" /\ Range(x.columns) # Range(self.example.columns)
    THEN Error("IndexError")
    ELSE None

\* A variant without the check of the chunk's kind.
verify_columns_only(self, x) ==
    IF self.cls = "StreamingDataFrame" /\ IsFrame(x) /\ x.columns # self.example.columns
    THEN Error("IndexError")
    ELSE None

\* Streaming.verify and StreamingDataFrame.verify: None, or the error raised.
verify(self, x) ==
    IF ~IsSubtype(self.cls, x) THEN Error("TypeError")
    ELSE IF self.cls = "StreamingDataFrame" /\ x.columns # self.example.columns
    THEN Error("IndexError")
    ELSE None

\* min_periods as rolling passes it on: 1 for a window that is no int.
MinPeriods(window, min_periods) == IF window.k = "int" THEN min_periods ELSE 1

rolling(ns, self, window, min_periods) ==
    Returned(ns \o <<Node("accumulate", <<self.stream>>,
                          [fn |-> "_roll", window |-> window,
                           min_periods |-> MinPeriods(window, min_periods)],
                          no_default, TRUE, Len(ns[self.stream].out)),
                     Node("filter", <<Len(ns) + 1>>,
                          [fn |-> "len_ge", min_periods |-> MinPeriods(window, min_periods)],
                          None, FALSE, 0)>>,
             Handle(self.cls, Len(ns) + 2, self.example))

\* StreamingFrame.sum and StreamingFrame.round.
sum(ns, self) ==
    accumulate_partitions(ns, self, [fn |-> "_accumulate_sum"], PyInt(0), FALSE, None)

round(ns, self, decimals) ==
    map_partitions(ns, self, [fn |-> "round", decimals |-> decimals], None)

\* StreamingDataFrame.mean and StreamingSeries.mean.
MeanStart(self) ==
    IF self.cls = "StreamingDataFrame"
    THEN DataFrame(<<"sums", "counts">>, NameLabels(self.example.columns),
                   [i \in 1..Len(self.example.columns) |-> <<Q(0), Q(0)>>])
    ELSE Series("", <<NameLabel("sums"), NameLabel("counts")>>, <<Q(0), Q(0)>>)

mean(ns, self) ==
    accumulate_partitions(ns, self, [fn |-> "_accumulate_mean"], MeanStart(self), TRUE, None)

__getitem__(ns, self, index) ==
    map_partitions(ns, self, [fn |-> "getitem", index |-> index], None)

__getattr__(ns, self, key) ==
    IF Contains(self.example.columns, key)
    THEN map_partitions(ns, self, [fn |-> "getattr", key |-> key], None)
    ELSE Raised(ns, Error("AttributeError"))

(***************************************************************************)
(* StreamingSeriesGroupby: root.groupby(grouper)[index].  The grouper is a *)
(* handle (its chunks are zipped with the root's) or a constant key.       *)
(***************************************************************************)
StreamingSeriesGroupby(root, grouper, index) ==
    [root |-> root, grouper |-> grouper, index |-> index]

IsStreaming(x) == "cls" \in DOMAIN x

\* The tail both aggregates share: the stream folded from the root's, or
\* from the root's zipped with the grouper's, and the class of the result.
GroupbyFold(ns, self, fn, start, returns_state, example) ==
    IF IsError(example) THEN Raised(ns, example)
    ELSE IF IsStreaming(self.grouper)
    THEN Returned(ns \o <<ZipNode(ns, <<self.root.stream, self.grouper.stream>>),
                          Node("accumulate", <<Len(ns) + 1>>,
                               [fn |-> fn, grouper |-> None, index |-> self.index],
                               start, returns_state, 0)>>,
                  Handle(IF IsFrame(example) THEN "StreamingDataFrame"
                         ELSE "StreamingSeries", Len(ns) + 2, example))
    ELSE Returned(Append(ns, Node("accumulate", <<self.root.stream>>,
                                  [fn |-> fn, grouper |-> self.grouper, index |-> self.index],
                                  start, returns_state, Len(ns[self.root.stream].out))),
                  Handle(IF IsFrame(example) THEN "StreamingDataFrame"
                         ELSE "StreamingSeries", Len(ns) + 1, example))

GroupbyExample(self) ==
    GroupSelect(GroupBy(self.root.example,
                        IF IsStreaming(self.grouper) THEN self.grouper.example
                        ELSE self.grouper),
                self.index)

groupby_sum(ns, self) ==
    GroupbyFold(ns, self, "_accumulate_groupby_sum", PyInt(0), FALSE,
                GroupSum(GroupbyExample(self)))

groupby_mean(ns, self) ==
    GroupbyFold(ns, self, "_accumulate_groupby_mean", PyTuple(<<PyInt(0), PyInt(0)>>), TRUE,
                GroupMean(GroupbyExample(self)))

(***************************************************************************)
(* StreamingDataFrame.assign and __setitem__.                              *)
(***************************************************************************)
\* The relabelling assign gives concat: list(self.columns) + list(columns).
AssignColumns(self, columns) == self.example.columns \o columns

Assigned(ns, stream, example) ==
    IF IsError(example) THEN Raised(ns, example)
    ELSE Returned(ns, Handle("StreamingDataFrame", stream, example))

assign(ns, self, columns, values) ==
    Assigned(ns \o <<ZipNode(ns, <<self.stream>> \o
                                  [i \in 1..Len(values) |-> values[i].stream]),
                     Node("map", <<Len(ns) + 1>>,
                          [fn |-> "concat", columns |-> AssignColumns(self, columns)],
                          None, FALSE, 0)>>,
             Len(ns) + 2,
             AssignAll(self.example, columns, [i \in 1..Len(values) |-> values[i].example]))

Select(before, got) ==
    [nodes |-> got.nodes, handles |-> Append(before.handles, got.handle)]

Selected(before, value, n) ==
    Select(before, __getitem__(before.nodes, value, KeyName(value.example.columns[n])))

RECURSIVE SelectEach(_, _, _)
\* value[c] for each of the first n columns of value, each a new handle over
\* a new map node: [nodes, handles].
SelectEach(R, value, n) ==
    IF n = 0 THEN R
    ELSE Selected(SelectEach(R, value, n - 1), value, n)

\* A variant that takes the result's example and keeps self's stream.
Swapped_example(self, result) ==
    IF IsError(result.exc) THEN result
    ELSE Returned(result.nodes, Handle(self.cls, self.stream, result.handle.example))

\* The tail of __setitem__: the result's stream and example replace self's.
Swapped(self, result) ==
    IF IsError(result.exc) THEN result
    ELSE Returned(result.nodes, Handle(self.cls, result.handle.stream,
                                       result.handle.example))

AssignEach(self, key, each) == assign(each.nodes, self, key, each.handles)

\* self[key] = value
__setitem__(ns, self, key, value) ==
    IF IsStreaming(value) /\ value.cls = "StreamingSeries"
    THEN Swapped(self, assign(ns, self, <<key>>, <<value>>))
    ELSE IF IsStreaming(value) /\ value.cls = "StreamingDataFrame"
    THEN Swapped(self, AssignEach(self,
                     SubSeq(key, 1, Min(Len(key), Len(value.example.columns))),
                     SelectEach([nodes |-> ns, handles |-> <<>>], value,
                                Min(Len(key), Len(value.example.columns)))))
    ELSE Swapped(self, map_partitions(ns, self,
                     [fn |-> "DataFrame.assign", key |-> key, value |-> value], None))

(***************************************************************************)
(* State.                                                                  *)
(*   nodes    the dataflow graph, nodes in the order they were created     *)
(*   handles  the handles the caller holds, in the order they were made    *)
(*   seed     whether this engine emits the first value of a fold that has *)
(*            no start (fixed for a run)                                   *)
(*   exc      what the last call raised, None if it returned               *)
(*   last     the last call: its name, the handle it was made on, its      *)
(*            argument                                                     *)
(*   emits    the number of emit calls made                                *)
(***************************************************************************)
VARIABLES nodes, handles, seed, exc, last, emits

vars == <<nodes, handles, seed, exc, last, emits>>

Call(op, self, arg) == [op |-> op, self |-> self, arg |-> arg]

\* A variant that also rebinds the receiver to the result.
Derive_rebinds(R, call) ==
    /\ Len(R.nodes) <= MaxNodes
    /\ Len(handles) < MaxHandles
    /\ nodes' = R.nodes
    /\ handles' = IF IsError(R.exc) THEN handles
                  ELSE Append([handles EXCEPT ![call.self] = R.handle], R.handle)
    /\ exc' = R.exc
    /\ last' = call
    /\ UNCHANGED <<seed, emits>>

\* A method that returns a new handle has run with result R.
Derive(R, call) ==
    /\ Len(R.nodes) <= MaxNodes
    /\ Len(handles) < MaxHandles
    /\ nodes' = R.nodes
    /\ handles' = IF IsError(R.exc) THEN handles ELSE Append(handles, R.handle)
    /\ exc' = R.exc
    /\ last' = call
    /\ UNCHANGED <<seed, emits>>

IsFrameHandle(h) == handles[h].cls = "StreamingDataFrame"

IsTableHandle(h) == handles[h].cls \in {"StreamingDataFrame", "StreamingSeries"}

Sum_(h) ==
    /\ IsTableHandle(h)
    /\ Derive(sum(nodes, handles[h]), Call("sum", h, None))

Mean(h) ==
    /\ IsTableHandle(h)
    /\ Derive(mean(nodes, handles[h]), Call("mean", h, None))

RoundOp(h, decimals) ==
    /\ IsTableHandle(h)
    /\ Derive(round(nodes, handles[h], decimals), Call("round", h, decimals))

Arith(h, op, other) ==
    Derive(map_partitions(nodes, handles[h], Operator(op, other), None),
           Call(op, h, other))

GetItemOp(h, index) ==
    /\ IsFrameHandle(h)
    /\ Derive(__getitem__(nodes, handles[h], index), Call("getitem", h, index))

GetAttrOp(h, key) ==
    /\ IsFrameHandle(h)
    /\ Derive(__getattr__(nodes, handles[h], key), Call("getattr", h, key))

Rolling(h, window, min_periods) ==
    Derive(rolling(nodes, handles[h], window, min_periods),
           Call("rolling", h, [window |-> window, min_periods |-> min_periods]))

\* h.groupby(grouper)[index].sum() and .mean(); g = 0 for a constant key,
\* else the handle that streams the keys.
Grouper(g, key) == IF g = 0 THEN key ELSE handles[g]

GroupbySum(h, g, key, index) ==
    /\ IsFrameHandle(h)
    /\ Derive(groupby_sum(nodes, StreamingSeriesGroupby(handles[h], Grouper(g, key), index)),
              Call("groupby.sum", h, [g |-> g, key |-> key, index |-> index]))

GroupbyMean(h, g, key, index) ==
    /\ IsFrameHandle(h)
    /\ Derive(groupby_mean(nodes, StreamingSeriesGroupby(handles[h], Grouper(g, key), index)),
              Call("groupby.mean", h, [g |-> g, key |-> key, index |-> index]))

AssignOp(h, column, v) ==
    /\ IsFrameHandle(h)
    /\ IsTableHandle(v)
    /\ Derive(assign(nodes, handles[h], <<column>>, <<handles[v]>>),
              Call("assign", h, [key |-> column, v |-> v]))

\* h[key] = value: the handle itself changes, no handle is added.
Replace(h, R, call) ==
    /\ Len(R.nodes) <= MaxNodes
    /\ nodes' = R.nodes
    /\ handles' = IF IsError(R.exc) THEN handles ELSE [handles EXCEPT ![h] = R.handle]
    /\ exc' = R.exc
    /\ last' = call
    /\ UNCHANGED <<seed, emits>>

SetItem(h, key, v, value) ==
    /\ IsFrameHandle(h)
    /\ v # 0 => IsTableHandle(v)
    /\ Replace(h, __setitem__(nodes, handles[h], key, IF v = 0 THEN value ELSE handles[v]),
               Call("setitem", h, [key |-> key, v |-> v, value |-> value]))

\* h.emit(x): verify, then the chunk is pushed through the graph from the
\* handle's node.
Pushed(G) == exc' = G.exc /\ nodes' = G.nodes

Refused(v) == exc' = v /\ nodes' = nodes

Emit(h, x) ==
    /\ emits < MaxEmits
    /\ emits' = emits + 1
    /\ last' = Call("emit", h, x)
    /\ IF IsError(verify(handles[h], x))
       THEN Refused(verify(handles[h], x))
       ELSE Pushed(StreamEmit([nodes |-> nodes, exc |-> None, seed |-> seed],
                              handles[h].stream, x))
    /\ UNCHANGED <<handles, seed>>

(***************************************************************************)
(* Inputs: the chunks and examples the model draws from.                   *)
(***************************************************************************)
XY == <<"x", "y">>

\* A frame with the default index, from rows of integers.
Frame(columns, rows) ==
    DataFrame(columns, RangeIndex(Len(rows)),
              [i \in 1..Len(rows) |-> [j \in 1..Len(rows[i]) |-> Q(rows[i][j])]])

SeriesOf(name, vals) ==
    Series(name, RangeIndex(Len(vals)), [i \in 1..Len(vals) |-> Q(vals[i])])

FrameChunks == {Frame(XY, <<>>), Frame(XY, <<<<1, 3>>>>), Frame(XY, <<<<1, 2>>, <<2, 4>>>>)}

SeriesChunks == {SeriesOf("x", <<2>>), SeriesOf("x", <<1, 4>>)}

\* Chunks a frame handle over columns x, y must refuse.
BadChunks == {Frame(<<"x">>, <<<<1>>>>), Frame(<<"y", "x">>, <<<<3, 1>>>>)}

\* Streaming.__init__: a source handle over a fresh node.
SourceHandle(cls, stream, example) == Handle(cls, stream, example)

NoCall == Call("init", 0, None)

AllHandles == 1..Len(handles)

(***************************************************************************)
(* Pipelines: the graph and the handles a caller has after a sequence of   *)
(* method calls, each on a handle made before it.                          *)
(***************************************************************************)
Sources ==
    [nodes |-> <<SourceNode, SourceNode>>,
     handles |-> <<SourceHandle("StreamingDataFrame", 1, Frame(XY, <<>>)),
                   SourceHandle("StreamingSeries", 2, SeriesOf("x", <<>>))>>]

Then(P, R) == [nodes |-> R.nodes, handles |-> Append(P.handles, R.handle)]

ThenAgg(P, op, h) ==
    IF op = "sum" THEN Then(P, sum(P.nodes, P.handles[h]))
    ELSE Then(P, mean(P.nodes, P.handles[h]))

Built(P) ==
    /\ nodes = P.nodes
    /\ handles = P.handles
    /\ seed \in BOOLEAN
    /\ exc = None
    /\ last = NoCall
    /\ emits = 0

(***************************************************************************)
(* SpecAgg: over a frame source and a series source, two running           *)
(* aggregates (each a sum or a mean of either source); chunks are emitted  *)
(* on the sources.                                                         *)
(***************************************************************************)
InitAgg ==
    \E a, b \in {"sum", "mean"}, ha, hb \in {1, 2} :
        Built(ThenAgg(ThenAgg(Sources, a, ha), b, hb))

EmitFrame == \E x \in FrameChunks : Emit(1, x)

EmitSeries == \E x \in SeriesChunks : Emit(2, x)

NextAgg == EmitFrame \/ EmitSeries

SpecAgg == InitAgg /\ [][NextAgg]_vars

(***************************************************************************)
(* What a fold has seen: the values its upstream emitted since the fold    *)
(* was attached.                                                           *)
(***************************************************************************)
Seen(n) == Drop(nodes[nodes[n].ups[1]].out, nodes[n].since)

FoldsOf(fn) ==
    {n \in 1..Len(nodes) : nodes[n].op = "accumulate" /\ nodes[n].func.fn = fn}

RECURSIVE SumOfSums(_)
\* sum(c1) + (sum(c2) + ... + sum(cn)) for a non-empty sequence of chunks.
SumOfSums(cs) ==
    IF Len(cs) = 1 THEN Sum(cs[1])
    ELSE BinOp("add", Sum(cs[1]), SumOfSums(Tail(cs)), NaN)

RECURSIVE SumOfCounts(_)
SumOfCounts(cs) ==
    IF Len(cs) = 1 THEN Count(cs[1])
    ELSE BinOp("add", Count(cs[1]), SumOfCounts(Tail(cs)), NaN)

\* C1: every running sum has produced one output per chunk it has seen, and
\* its k-th output is the sum of the chunk-level sums of the first k chunks.
C1_RunningSum ==
    \A n \in FoldsOf("_accumulate_sum") :
        /\ Len(nodes[n].out) = Len(Seen(n))
        /\ \A k \in 1..Len(Seen(n)) :
               nodes[n].out[k] = SumOfSums(SubSeq(Seen(n), 1, k))

\* A running sum of the frame source has seen three chunks, the last two
\* with rows.
C1_Witness ==
    \E n \in FoldsOf("_accumulate_sum") :
        /\ nodes[n].ups = <<1>>
        /\ Len(nodes[n].out) = 3
        /\ \A k \in 2..3 : Len(Seen(n)[k].rows) > 0

\* The cells of a running-mean state under one of its two labels.
StateCells(state, label) ==
    IF IsFrame(state) THEN Col(state, label) ELSE <<StateGet(state, label).v>>

Cells(x) == IF IsSeries(x) THEN x.vals ELSE <<x.v>>

\* C2: the k-th output of every running mean is (sum of the chunk sums) /
\* (sum of the chunk counts) over the first k chunks seen; the state carried
\* is the pair of those totals, and the last output is their ratio.
C2_RunningMean ==
    \A n \in FoldsOf("_accumulate_mean") :
        /\ Len(nodes[n].out) = Len(Seen(n))
        /\ \A k \in 1..Len(Seen(n)) :
               nodes[n].out[k] = BinOp("truediv", SumOfSums(SubSeq(Seen(n), 1, k)),
                                       SumOfCounts(SubSeq(Seen(n), 1, k)), NaN)
        /\ Seen(n) # <<>> =>
               /\ StateCells(nodes[n].state, "sums") = Cells(SumOfSums(Seen(n)))
               /\ StateCells(nodes[n].state, "counts") = Cells(SumOfCounts(Seen(n)))
               /\ Last(nodes[n].out) = MeanRatio(nodes[n].state)

\* A running mean of the frame source has seen three chunks, two with rows,
\* and its last output differs from the one before.
C2_Witness ==
    \E n \in FoldsOf("_accumulate_mean") :
        /\ nodes[n].ups = <<1>>
        /\ Len(nodes[n].out) = 3
        /\ Len(Seen(n)[1].rows) > 0
        /\ Len(Seen(n)[3].rows) > 0
        /\ nodes[n].out[3] # nodes[n].out[2]

(***************************************************************************)
(* SpecGroup: over the frame source, one grouped aggregate, sum or mean,   *)
(* keyed by column x or by the chunks of the series source, of all columns *)
(* or of column y alone; chunks are emitted on both sources.               *)
(***************************************************************************)
GroupChunks ==
    {Frame(XY, <<>>), Frame(XY, <<<<1, 3>>>>), Frame(XY, <<<<2, 5>>>>),
     Frame(XY, <<<<1, 2>>, <<2, 4>>>>)}

KeyChunks == {SeriesOf("x", <<7>>), SeriesOf("x", <<8, 7>>)}

ThenGroupby(P, op, g, index) ==
    IF op = "sum"
    THEN Then(P, groupby_sum(P.nodes, StreamingSeriesGroupby(P.handles[1],
                  IF g = 0 THEN KeyName("x") ELSE P.handles[g], index)))
    ELSE Then(P, groupby_mean(P.nodes, StreamingSeriesGroupby(P.handles[1],
                  IF g = 0 THEN KeyName("x") ELSE P.handles[g], index)))

InitGroup ==
    \E op \in {"sum", "mean"}, g \in {0, 2}, index \in {None, KeyName("y")} :
        Built(ThenGroupby(Sources, op, g, index))

EmitRoot == \E x \in GroupChunks : Emit(1, x)

EmitKeys == \E x \in KeyChunks : Emit(2, x)

NextGroup == EmitRoot \/ EmitKeys

SpecGroup == InitGroup /\ [][NextGroup]_vars

RECURSIVE ConcatAll(_)
\* The chunks of a non-empty sequence as one table.
ConcatAll(cs) ==
    IF Len(cs) = 1 THEN cs[1]
    ELSE ConcatRows(ConcatAll(SubSeq(cs, 1, Len(cs) - 1)), Last(cs))

\* What a grouped fold has seen, each zipped pair as the chunk with its keys
\* in a column w beside it.
Keyed(x) == IF x.k = "tuple" THEN Assign(x.items[1], "w", x.items[2]) ELSE x

SeenKeyed(n) == [i \in 1..Len(Seen(n)) |-> Keyed(Seen(n)[i])]

\* The grouping of the concatenation of the first k chunks fold n has seen.
GroupedOnce(n, k) ==
    GroupSelect(GroupBy(ConcatAll(SubSeq(SeenKeyed(n), 1, k)),
                        IF nodes[n].func.grouper.k = "None" THEN KeyName("w")
                        ELSE nodes[n].func.grouper),
                nodes[n].func.index)

StaticKey(n) == nodes[n].func.grouper.k = "name"

\* C3: with a constant key, a grouped sum has one output per chunk, and its
\* output after each chunk is the grouped sum of the concatenation of the
\* chunks so far: a group a chunk lacks adds zero, a new group starts at zero.
C3_GroupedSum ==
    \A n \in FoldsOf("_accumulate_groupby_sum") :
        StaticKey(n) =>
            /\ Len(nodes[n].out) = Len(Seen(n))
            /\ \A k \in 1..Len(Seen(n)) : nodes[n].out[k] = GroupSum(GroupedOnce(n, k))

\* A static-key grouped sum whose second chunk lacks a group of the first
\* and whose third chunk brings a group no chunk before had.
C3_Witness ==
    \E n \in FoldsOf("_accumulate_groupby_sum") :
        /\ StaticKey(n)
        /\ Len(nodes[n].out) = 3
        /\ Len(nodes[n].out[1].index) = 1
        /\ nodes[n].out[2].index = nodes[n].out[1].index
        /\ Len(nodes[n].out[3].index) = 2
        /\ Seen(n)[3].rows # <<>> /\ Len(Seen(n)[3].rows) = 1

\* C4: at every tick a grouped mean shows, per group seen so far, the mean of
\* the group's rows in the chunks so far (running sum / running count); its
\* state is the pair (running sums, running counts).
C4_GroupedMean ==
    \A n \in FoldsOf("_accumulate_groupby_mean") :
        /\ Len(nodes[n].out) = Len(Seen(n))
        /\ \A k \in 1..Len(Seen(n)) :
               /\ nodes[n].out[k] = GroupMean(GroupedOnce(n, k))
               /\ nodes[n].out[k] = BinOp("truediv", GroupSum(GroupedOnce(n, k)),
                                          GroupCount(GroupedOnce(n, k)), NaN)
        /\ Seen(n) # <<>> =>
               nodes[n].state = PyTuple(<<GroupSum(GroupedOnce(n, Len(Seen(n)))),
                                          GroupCount(GroupedOnce(n, Len(Seen(n))))>>)

\* A grouped mean after three chunks, with a group met in two of them and a
\* group met only in the last.
C4_Witness ==
    \E n \in FoldsOf("_accumulate_groupby_mean") :
        /\ Len(nodes[n].out) = 3
        /\ Len(nodes[n].out[2].index) = 1
        /\ Len(nodes[n].out[3].index) = 2
        /\ nodes[n].out[2] # nodes[n].out[1]
        /\ nodes[n].out[3] # GroupMean(Grouped(Keyed(Seen(n)[3]), nodes[n].func.grouper,
                                              nodes[n].func.index))

\* The folds of SpecGroup fed by a zip of the root's and the grouper's chunks.
ZippedFolds ==
    {n \in 1..Len(nodes) : nodes[n].op = "accumulate" /\ nodes[nodes[n].ups[1]].op = "zip"}

Zip(n) == nodes[nodes[n].ups[1]]

\* C8: with the keys streamed, after r chunks on the root and g on the
\* grouper in any order the grouped aggregate has made min(r, g) outputs,
\* the i-th from the i-th chunk of each, and no emit has raised.
C8_ZipSynchronized ==
    \A n \in ZippedFolds :
        /\ exc.k = "None"
        /\ Len(Zip(n).out) = Min(Len(nodes[Zip(n).ups[1]].out), Len(nodes[Zip(n).ups[2]].out))
        /\ Len(nodes[n].out) = Len(Zip(n).out)
        /\ \A i \in 1..Len(Zip(n).out) :
               Zip(n).out[i] = PyTuple(<<nodes[Zip(n).ups[1]].out[i],
                                         nodes[Zip(n).ups[2]].out[i]>>)

\* The root was fed twice, then the grouper once: one output, one root chunk
\* still queued.
C8_Witness ==
    \E n \in ZippedFolds :
        /\ Len(nodes[Zip(n).ups[1]].out) = 2
        /\ Len(nodes[Zip(n).ups[2]].out) = 1
        /\ last.self = 2
        /\ Len(nodes[n].out) = 1
        /\ Len(Zip(n).buffers[1]) = 1
        /\ exc.k = "None"

(***************************************************************************)
(* SpecRoll: over the frame source, one row-count rolling window; chunks   *)
(* of one row and of two rows are emitted on the source.                   *)
(***************************************************************************)
RollChunks ==
    {Frame(XY, <<<<1, 3>>>>), Frame(XY, <<<<2, 4>>>>), Frame(XY, <<<<5, 6>>, <<7, 8>>>>)}

Windows == {1, 2, 3}

Periods == {1, 2, 3}

ThenRolling(P, window, min_periods) ==
    Then(P, rolling(P.nodes, P.handles[1], window, min_periods))

InitRoll ==
    \E w \in Windows, m \in Periods : Built(ThenRolling(Sources, IntWindow(w), m))

EmitRows == \E x \in RollChunks : Emit(1, x)

NextRoll == EmitRows

SpecRoll == InitRoll /\ [][NextRoll]_vars

\* The filter nodes of rolling windows; the fold of each is its upstream.
Rollings == {f \in 1..Len(nodes) : nodes[f].op = "filter"}

RollFold(f) == nodes[f].ups[1]

OneRowChunks(s) == \A i \in 1..Len(Seen(s)) : PyLen(Seen(s)[i]) = 1

\* C5: a row-count window w with min_periods m <= w, fed k chunks of one
\* row each, has shown no tick while k < m and then one tick per chunk, the
\* tick after chunk k being the last min(w, k) rows in the order they came.
C5_RollingRows ==
    \A f \in Rollings :
        LET s == RollFold(f)
            w == nodes[s].func.window.n
            m == nodes[s].func.min_periods
            k == Len(Seen(s))
        IN  (OneRowChunks(s) /\ m <= w) =>
                /\ Len(nodes[f].out) = (IF k < m THEN 0 ELSE k - m + 1)
                /\ \A j \in 1..Len(nodes[f].out) :
                       nodes[f].out[j] = Iloc(ConcatAll(SubSeq(Seen(s), 1, m - 1 + j)),
                                              -Min(w, m - 1 + j))

\* The same, on an engine that forwards the first value of a fold without a
\* start, or with min_periods at least 2.
C5_RollingRowsSeeded == (seed \/ \A f \in Rollings : nodes[f].func.min_periods >= 2) => C5_RollingRows

(***************************************************************************)
(* SpecVerify: a running sum over the frame source and a running mean over *)
(* the series source; chunks of either kind, with the right columns or     *)
(* not, are emitted on both sources.                                       *)
(***************************************************************************)
VerifyChunks ==
    {Frame(XY, <<<<1, 2>>>>), SeriesOf("x", <<2>>)} \cup BadChunks

InitVerify == Built(ThenAgg(ThenAgg(Sources, "sum", 1), "mean", 2))

EmitOnFrame == \E x \in VerifyChunks : Emit(1, x)

EmitOnSeries == \E x \in VerifyChunks : Emit(2, x)

NextVerify == EmitOnFrame \/ EmitOnSeries

SpecVerify == InitVerify /\ [][NextVerify]_vars

\* The step is an emit, on a frame handle, of a frame with other columns.
EmitsOtherColumns ==
    /\ last'.op = "emit"
    /\ handles[last'.self].cls = "StreamingDataFrame"
    /\ IsFrame(last'.arg)
    /\ last'.arg.columns # handles[last'.self].example.columns

\* C6: an emit on a frame handle of a frame whose column list differs from
\* the example's, in membership or in order, raises IndexError and leaves
\* every handle's example, every accumulator's state and every node's output
\* as they were.
C6_SchemaEnforced ==
    [][EmitsOtherColumns =>
           /\ exc' = Error("IndexError")
           /\ handles' = handles
           /\ nodes' = nodes]_vars

\* A frame with the example's columns in another order has been refused
\* after an accepted frame had advanced the running sum.
C6_Witness ==
    /\ last.op = "emit" /\ last.self = 1
    /\ IsFrame(last.arg) /\ last.arg.columns = <<"y", "x">>
    /\ exc = Error("IndexError")
    /\ nodes[3].out # <<>>

\* The step is an emit of a chunk that is not of the handle's kind.
EmitsOtherKind ==
    /\ last'.op = "emit"
    /\ ~IsSubtype(handles[last'.self].cls, last'.arg)

\* C7: an emit of a chunk of another kind than the handle's raises TypeError,
\* not IndexError, whatever the chunk's columns, and changes no node.
C7_TypeEnforced ==
    [][EmitsOtherKind =>
           /\ exc' = Error("TypeError")
           /\ exc' # Error("IndexError")
           /\ nodes' = nodes
           /\ handles' = handles]_vars

\* A series has been refused by the frame handle, and a frame by the series
\* handle, after accepted chunks had advanced both aggregates.
C7_Witness ==
    /\ last.op = "emit" /\ last.self = 1 /\ IsSeries(last.arg)
    /\ exc = Error("TypeError")
    /\ nodes[3].out # <<>>
    /\ nodes[4].out # <<>>

(***************************************************************************)
(* SpecDerive: a frame source h1 with a one-row example, its column        *)
(* h2 = h1.y and its running sum h3 = h1.sum(); the caller derives further *)
(* handles from any handle with the table-like operations and emits chunks *)
(* on the source, in any order.                                            *)
(***************************************************************************)
DeriveSource ==
    [nodes |-> <<SourceNode>>,
     handles |-> <<SourceHandle("StreamingDataFrame", 1, Frame(XY, <<<<3, 4>>>>))>>]

ThenGetAttr(P, h, key) == Then(P, __getattr__(P.nodes, P.handles[h], key))

InitDerive == Built(ThenAgg(ThenGetAttr(DeriveSource, 1, "y"), "sum", 1))

ArithOps == {"add", "mul", "mod", "truediv", "floordiv"}

DoSum == \E h \in AllHandles : Sum_(h)

DoMean == \E h \in AllHandles : Mean(h)

DoRound == \E h \in AllHandles : RoundOp(h, 0)

DoArith == \E h \in AllHandles, op \in ArithOps : Arith(h, op, Scalar(Q(2)))

DoGetItem ==
    \E h \in AllHandles, index \in {KeyName("x"), KeyList(<<"y", "x">>)} :
        GetItemOp(h, index)

DoGetAttr == \E h \in AllHandles, key \in {"y", "w"} : GetAttrOp(h, key)

DoGroupbySum ==
    \E h \in AllHandles, g \in {0, 2}, index \in {None, KeyName("y")} :
        GroupbySum(h, g, KeyName("x"), index)

DoGroupbyMean ==
    \E h \in AllHandles, g \in {0, 2}, index \in {None, KeyName("y")} :
        GroupbyMean(h, g, KeyName("x"), index)

\* At most MaxFeeds chunks are emitted between the derivations.
EmitSource == emits < MaxFeeds /\ Emit(1, Frame(XY, <<<<1, 2>>, <<2, 4>>>>))

NextDerive ==
    \/ DoSum \/ DoMean \/ DoRound \/ DoArith \/ DoGetItem \/ DoGetAttr
    \/ DoGroupbySum \/ DoGroupbyMean \/ EmitSource

SpecDerive == InitDerive /\ [][NextDerive]_vars

(***************************************************************************)
(* SpecAssign: the frame source h1 and its column h2 = h1.y; the caller    *)
(* assigns columns (h.assign(c=h2), h[c] = h2, h[c] = 5), takes rolling    *)
(* windows and emits chunks on the source, in any order.                   *)
(***************************************************************************)
InitAssign == Built(ThenGetAttr(DeriveSource, 1, "y"))

DoAssign == \E h \in AllHandles, column \in {"x", "z"} : AssignOp(h, column, 2)

DoSetItem ==
    \E h \in AllHandles, key \in {"x", "z"}, v \in {0, 2} :
        SetItem(h, key, v, Scalar(Q(5)))

DoRolling == \E h \in AllHandles : Rolling(h, IntWindow(2), 1)

NextAssign == DoAssign \/ DoSetItem \/ DoRolling \/ EmitSource

SpecAssign == InitAssign /\ [][NextAssign]_vars

\* C9: every chunk that has flowed through the node of a frame handle is a
\* frame with exactly the columns of the handle's example, in its order.
C9_FrameSchema ==
    \A h \in AllHandles :
        handles[h].cls = "StreamingDataFrame" =>
            \A i \in 1..Len(nodes[handles[h].stream].out) :
                /\ IsFrame(nodes[handles[h].stream].out[i])
                /\ nodes[handles[h].stream].out[i].columns = handles[h].example.columns

\* The calls of the table-like derivations.
TableOps == ArithOps \cup {"getitem", "getattr", "round", "sum", "mean", "groupby.sum", "groupby.mean"}

\* The key a grouped call groups an example by: the constant key, or the
\* example of the handle that streams the keys.
ExampleKey(hs, arg) == IF arg.g = 0 THEN arg.key ELSE hs[arg.g].example

\* The operation of a call applied directly to a table ex.
Directly(hs, call, ex) ==
    CASE call.op \in ArithOps -> BinOp(call.op, ex, call.arg, NaN)
      [] call.op = "getitem" -> GetItem(ex, call.arg)
      [] call.op = "getattr" -> GetAttr(ex, call.arg)
      [] call.op = "round" -> Round(ex, call.arg)
      [] call.op = "sum" -> Sum(ex)
      [] call.op = "mean" -> BinOp("truediv", Sum(ex), Count(ex), NaN)
      [] call.op = "groupby.sum" ->
           GroupSum(GroupSelect(GroupBy(ex, ExampleKey(hs, call.arg)), call.arg.index))
      [] call.op = "groupby.mean" ->
           GroupMean(GroupSelect(GroupBy(ex, ExampleKey(hs, call.arg)), call.arg.index))

\* For the folds, the visible output of one step on (start, ex).
OneFoldStep(hs, call, ex) ==
    CASE call.op = "sum" -> _accumulate_sum(PyInt(0), ex)
      [] call.op = "mean" -> _accumulate_mean(MeanStart(hs[call.self]), ex).items[2]
      [] call.op = "groupby.sum" /\ call.arg.g = 0 ->
           _accumulate_groupby_sum(PyInt(0), ex, call.arg.key, call.arg.index)
      [] call.op = "groupby.mean" /\ call.arg.g = 0 ->
           _accumulate_groupby_mean(PyTuple(<<PyInt(0), PyInt(0)>>), ex,
                                    call.arg.key, call.arg.index).items[2]
      [] OTHER -> Directly(hs, call, ex)

\* The step is a table-like derivation that returned a handle.
Derives ==
    /\ last'.op \in TableOps
    /\ exc'.k = "None"
    /\ Len(handles') = Len(handles) + 1

\* C10: the handle a table-like derivation returns has for example the
\* operation applied to the parent's example (for a fold, the output of one
\* step from the start), and the derivation changes no node that was there:
\* no chunk is fed, no accumulator moves, the new nodes have emitted nothing.
C10_ExampleDerived ==
    [][Derives =>
           /\ Last(handles').example = Directly(handles, last', handles[last'.self].example)
           /\ Last(handles').example = OneFoldStep(handles, last', handles[last'.self].example)
           /\ SubSeq(handles', 1, Len(handles)) = handles
           /\ SubSeq(nodes', 1, Len(nodes)) = nodes
           /\ \A n \in (Len(nodes) + 1)..Len(nodes') :
                  /\ nodes'[n].out = <<>>
                  /\ \A i \in 1..Len(nodes'[n].buffers) : nodes'[n].buffers[i] = <<>>
                  /\ nodes'[n].op = "accumulate" =>
                         nodes'[n].state \in {PyInt(0), PyTuple(<<PyInt(0), PyInt(0)>>),
                                              MeanStart(handles[last'.self])}]_vars

\* A mean was derived from the source after chunks had advanced the running
\* sum: the new handle has the mean of the example, the new fold its start.
C10_Witness ==
    /\ last.op = "mean" /\ last.self = 1
    /\ exc.k = "None"
    /\ Len(handles) = 4
    /\ nodes[1].out # <<>>
    /\ nodes[3].state # PyInt(0)
    /\ Last(nodes).out = <<>>
    /\ Last(handles).example = Series("", NameLabels(XY), <<Q(3), Q(4)>>)

(***************************************************************************)
(* SpecVariant: a frame source h1 and a source h2 of the base class        *)
(* Streaming whose example is a frame too (Streaming(example=df)); the     *)
(* caller derives handles from any handle by arithmetic, sums, means and   *)
(* rolling windows, and emits chunks on the sources.                       *)
(***************************************************************************)
VariantSources ==
    [nodes |-> <<SourceNode, SourceNode>>,
     handles |-> <<SourceHandle("StreamingDataFrame", 1, Frame(XY, <<<<3, 4>>>>)),
                   SourceHandle("Streaming", 2, Frame(XY, <<<<3, 4>>>>))>>]

InitVariant == Built(VariantSources)

EmitEither == \E h \in {1, 2} : emits < MaxFeeds /\ Emit(h, Frame(XY, <<<<1, 2>>, <<2, 4>>>>))

NextVariant == DoRolling \/ DoArith \/ DoSum \/ DoMean \/ DoGetItem \/ EmitEither

SpecVariant == InitVariant /\ [][NextVariant]_vars

\* The class the classification of an example gives.
Classify(example) ==
    IF IsFrame(example) THEN "StreamingDataFrame"
    ELSE IF IsSeries(example) THEN "StreamingSeries"
    ELSE "Streaming"

\* The handles of SpecVariant that a derivation returned.
DerivedHandles == {h \in AllHandles : h > Len(VariantSources.handles)}

\* C11: the class of every derived handle is the classification of its own
\* example.
C11_VariantDispatch ==
    \A h \in DerivedHandles : handles[h].cls = Classify(handles[h].example)

\* The same for the nodes that are no rolling window's filter.
C11_VariantDispatchMapped ==
    \A h \in DerivedHandles :
        nodes[handles[h].stream].op # "filter" =>
            handles[h].cls = Classify(handles[h].example)

(***************************************************************************)
(* SpecReceiver: the handles of SpecDerive, h1 the frame source, h2 = h1.y *)
(* and h3 = h1.sum(); every method is called on h1 or h2, chunks are       *)
(* emitted on the source.                                                  *)
(***************************************************************************)
Receivers == {1, 2}

NextReceiver ==
    \/ \E h \in Receivers : Sum_(h)
    \/ \E h \in Receivers : Mean(h)
    \/ \E h \in Receivers, op \in ArithOps : Arith(h, op, Scalar(Q(2)))
    \/ \E h \in Receivers, index \in {KeyName("x"), KeyList(<<"y", "x">>)} : GetItemOp(h, index)
    \/ \E h \in Receivers : Rolling(h, IntWindow(2), 1)
    \/ \E h \in Receivers, g \in {0, 2} : GroupbySum(h, g, KeyName("x"), None)
    \/ \E h \in Receivers, g \in {0, 2} : GroupbyMean(h, g, KeyName("x"), KeyName("y"))
    \/ \E h \in Receivers, column \in {"x", "z"} : AssignOp(h, column, 2)
    \/ \E h \in Receivers, key \in {"x", "z"}, v \in {0, 2} : SetItem(h, key, v, Scalar(Q(5)))
    \/ EmitSource

SpecReceiver == InitDerive /\ [][NextReceiver]_vars

\* C12: a call other than h[key] = value leaves every handle the caller
\* held, the receiver included, with its node and example, and when it
\* returns it returns one new handle; h[key] = value changes the node and
\* the example of h and of no other handle.
C12_ReceiverKept ==
    [][/\ last'.op # "setitem" =>
              /\ SubSeq(handles', 1, Len(handles)) = handles
              /\ (last'.op # "emit" /\ exc'.k = "None") => Len(handles') = Len(handles) + 1
       /\ (last'.op = "setitem" /\ exc'.k = "None") =>
              /\ Len(handles') = Len(handles)
              /\ handles'[last'.self].stream # handles[last'.self].stream
              /\ \A h \in AllHandles : h # last'.self => handles'[h] = handles[h]]_vars

\* h1.assign(...) has returned a fourth handle after chunks had flowed, and
\* h1 is the source handle it was.
C12_Witness ==
    /\ last.op = "assign" /\ last.self = 1
    /\ exc.k = "None"
    /\ Len(handles) = 4
    /\ nodes[1].out # <<>>
    /\ handles[1] = DeriveSource.handles[1]

(***************************************************************************)
(* SpecSetItem: a frame source node held through two handles, h1 and h2    *)
(* (h2 = StreamingDataFrame(stream=h1.stream, example=h1.example)); the    *)
(* caller derives h1.y and h1 + 1, assigns columns of h1 in place (a         *)
(* constant, a series handle, a frame handle with a list of keys) and      *)
(* emits chunks on h1 and on h2.                                           *)
(***************************************************************************)
SetItemSources ==
    [nodes |-> <<SourceNode>>,
     handles |-> <<SourceHandle("StreamingDataFrame", 1, Frame(XY, <<<<3, 4>>>>)),
                   SourceHandle("StreamingDataFrame", 1, Frame(XY, <<<<3, 4>>>>))>>]

InitSetItem == Built(SetItemSources)

SelectColumn == GetItemOp(1, KeyName("y"))

AddOne == Arith(1, "add", Scalar(Q(1)))

SetConstant == SetItem(1, "z", 0, Scalar(Q(5)))

SetSeries ==
    \E key \in {"x", "z"}, v \in AllHandles :
        handles[v].cls = "StreamingSeries" /\ SetItem(1, key, v, None)

SetFrame ==
    \E key \in {<<"z">>, <<"z", "w">>}, v \in AllHandles :
        handles[v].cls = "StreamingDataFrame" /\ SetItem(1, key, v, None)

\* A one-row chunk with the given columns.
RowOf(columns) == Frame(columns, <<[j \in 1..Len(columns) |-> j]>>)

\* h1.emit of a chunk with the columns h1 was made with.
EmitOriginal == emits < MaxFeeds /\ Emit(1, RowOf(XY))

\* h1.emit of a chunk with the columns of h1's example as it is now.
EmitCurrent == emits < MaxFeeds /\ Emit(1, RowOf(handles[1].example.columns))

EmitAlias == emits < MaxFeeds /\ Emit(2, Frame(XY, <<<<1, 2>>, <<2, 4>>>>))

NextSetItem ==
    \/ SelectColumn \/ AddOne \/ SetConstant \/ SetSeries \/ SetFrame
    \/ EmitOriginal \/ EmitCurrent \/ EmitAlias

SpecSetItem == InitSetItem /\ [][NextSetItem]_vars

\* The example pandas gives for h[key] = value, from the example of h and
\* the value (or the example of the handle v) as they were before the call.
SetItemExample(h, arg) ==
    IF arg.v = 0 THEN Assign(handles[h].example, arg.key, arg.value)
    ELSE IF handles[arg.v].cls = "StreamingSeries"
    THEN Assign(handles[h].example, arg.key, handles[arg.v].example)
    ELSE AssignAll(handles[h].example,
                   SubSeq(arg.key, 1, Min(Len(arg.key), Len(handles[arg.v].example.columns))),
                   [i \in 1..Min(Len(arg.key), Len(handles[arg.v].example.columns)) |->
                       GetItem(handles[arg.v].example,
                               KeyName(handles[arg.v].example.columns[i]))])

\* The handles other than h1 and its alias: h1.y and h1 + 1, whenever made.
Derivations == {g \in AllHandles : g > Len(SetItemSources.handles)}

\* What the node of a derivation has emitted is its function applied to
\* what its upstream node emitted since the derivation was made.
FollowsUpstream(n) ==
    /\ nodes[n].op = "map"
    /\ Len(nodes[n].out) = Len(Seen(n))
    /\ \A i \in 1..Len(Seen(n)) : nodes[n].out[i] = MapFunc(nodes[n].func, Seen(n)[i])

HasColumnsOf(x, example) == IsFrame(example) => x.columns = example.columns

\* C13: a successful h[key] = value leaves h on a new node, the last one
\* made, with the example old-example-with-the-column-assigned, and changes
\* no other handle and no node that existed; no step ever changes what a
\* node listens to; every handle derived from h keeps emitting its own
\* function of the node it was derived from; and one derived before any
\* assignment (its node listens to the source node) emits chunks with the
\* columns of its own example, none of them an assigned column.
C13_AssignInPlace ==
    /\ [](\A g \in Derivations :
            /\ FollowsUpstream(handles[g].stream)
            /\ nodes[handles[g].stream].ups = <<1>> =>
                  \A i \in 1..Len(nodes[handles[g].stream].out) :
                      HasColumnsOf(nodes[handles[g].stream].out[i], handles[g].example))
    /\ [][/\ \A n \in 1..Len(nodes) : nodes'[n].ups = nodes[n].ups
          /\ (last'.op = "setitem" /\ exc'.k = "None") =>
                /\ Len(nodes') > Len(nodes)
                /\ SubSeq(nodes', 1, Len(nodes)) = nodes
                /\ handles'[last'.self].stream = Len(nodes')
                /\ handles'[last'.self].cls = handles[last'.self].cls
                /\ handles'[last'.self].example = SetItemExample(last'.self, last'.arg)
                /\ Len(handles') = Len(handles)
                /\ \A g \in AllHandles : g # last'.self => handles'[g] = handles[g]]_vars

\* h1 + 1 was derived, then h1["z"] = 5 ran before any chunk, then a chunk
\* pushed through the alias reached the derived node, with columns x, y.
C13_Witness ==
    /\ last.op = "emit" /\ last.self = 2 /\ exc.k = "None"
    /\ handles[1].stream > 1
    /\ handles[1].example.columns = <<"x", "y", "z">>
    /\ nodes[handles[1].stream].ups = <<1>>
    /\ nodes[handles[1].stream].since = 0
    /\ \E g \in Derivations :
          /\ handles[g].cls = "StreamingDataFrame"
          /\ nodes[handles[g].stream].ups = <<1>>
          /\ handles[g].stream < handles[1].stream
          /\ nodes[handles[g].stream].out # <<>>
          /\ Last(nodes[handles[g].stream].out).columns = XY
          /\ Last(nodes[handles[1].stream].out).columns = <<"x", "y", "z">>

\* The rows held by a row-count window after the chunks seen so far, were
\* every chunk trimmed: the last min(w, rows seen) rows of their concatenation.
LastRows(s) ==
    Iloc(ConcatAll(Seen(s)), -Min(nodes[s].func.window.n, PyLen(ConcatAll(Seen(s)))))

\* C14: a row-count window w fed chunks of any row counts holds, after
\* every update, the first included, exactly the last min(w, rows seen)
\* rows of the chunks seen, and every tick shown has at most w rows.
C14_WindowBound ==
    \A f \in Rollings :
        /\ Seen(RollFold(f)) # <<>> => nodes[RollFold(f)].state = LastRows(RollFold(f))
        /\ \A j \in 1..Len(nodes[f].out) :
               PyLen(nodes[f].out[j]) <= nodes[RollFold(f)].func.window.n

\* The same from the second update on: the first chunk is held as it came.
C14_WindowBoundLater ==
    \A f \in Rollings :
        /\ Len(Seen(RollFold(f))) >= 2 => nodes[RollFold(f)].state = LastRows(RollFold(f))
        /\ \A j \in 1..Len(nodes[f].out) :
               (Len(Seen(RollFold(f))) >= 2 /\ ~seed) =>
                   PyLen(nodes[f].out[j]) <= nodes[RollFold(f)].func.window.n

(***************************************************************************)
(* SpecDuration: h.rolling(d, min_periods) with a duration d, fed chunks   *)
(* whose index is the time of each row, never decreasing.                  *)
(***************************************************************************)
Durations == {1, 2}

\* A chunk with one row per time: the index is the time, x the time, y = 1.
TimedFrame(times) ==
    DataFrame(XY, [i \in 1..Len(times) |-> Q(times[i])],
              [i \in 1..Len(times) |-> <<Q(times[i]), Q(1)>>])

\* The latest time emitted so far.
Now == IF nodes[1].out = <<>> THEN 0 ELSE IndexMax(Last(nodes[1].out).index)[1]

InitDuration ==
    \E d \in Durations, m \in Periods : Built(ThenRolling(Sources, Timedelta(d), m))

EmitTimed ==
    \E t \in {Now, Now + 1} : \E times \in {<<t>>, <<t, t + 2>>} : Emit(1, TimedFrame(times))

NextDuration == EmitTimed

SpecDuration == InitDuration /\ [][NextDuration]_vars

\* The rows of x whose index is at least the greatest index less d.
RecentRows(x, d) ==
    LET keep == {i \in 1..Len(x.index) : ~QLess(x.index[i], QAdd(IndexMax(x.index), Q(-d)))}
        at == SortInts(keep)
    IN  DataFrame(x.columns, [i \in 1..Len(at) |-> x.index[at[i]]],
                  [i \in 1..Len(at) |-> x.rows[at[i]]])

NonEmpty(cs) == SelectSeq(cs, LAMBDA c : PyLen(c) >= 1)

\* C15: a duration window d holds, after every update, exactly the rows
\* seen whose index is at least the greatest index less d; min_periods is 1
\* whatever was passed, and every chunk of at least one row shows one tick.
C15_DurationWindow ==
    \A f \in Rollings :
        /\ nodes[RollFold(f)].func.min_periods = 1
        /\ nodes[f].func.min_periods = 1
        /\ Seen(RollFold(f)) # <<>> =>
              nodes[RollFold(f)].state =
                  RecentRows(ConcatAll(Seen(RollFold(f))), nodes[RollFold(f)].func.window.n)
        /\ Len(nodes[f].out) = Len(NonEmpty(Seen(RollFold(f))))

\* The buffer alone, from the second update on.
C15_DurationBufferLater ==
    \A f \in Rollings :
        /\ nodes[RollFold(f)].func.min_periods = 1
        /\ nodes[f].func.min_periods = 1
        /\ Len(Seen(RollFold(f))) >= 2 =>
              nodes[RollFold(f)].state =
                  RecentRows(ConcatAll(Seen(RollFold(f))), nodes[RollFold(f)].func.window.n)
        /\ Len(nodes[f].out) = Len(NonEmpty(Seen(RollFold(f)))) - (IF seed THEN 0 ELSE Min(1, Len(Seen(RollFold(f)))))

(***************************************************************************)
(* SpecRaise: a grouped sum or mean of a frame source keyed by a series    *)
(* source; some key chunks have a repeated index label, which pandas       *)
(* cannot align with the chunk they are paired with, so the fold's         *)
(* function raises on that pair.                                           *)
(***************************************************************************)
RepeatedIndex == Series("x", <<Q(0), Q(0)>>, <<Q(7), Q(8)>>)

InitRaise ==
    \E op \in {"sum", "mean"}, index \in {None, KeyName("y")} :
        Built(ThenGroupby(Sources, op, 2, index))

EmitChunk ==
    \E x \in {Frame(XY, <<<<1, 3>>>>), Frame(XY, <<<<1, 2>>, <<2, 4>>>>)} : Emit(1, x)

EmitKey == \E x \in {SeriesOf("x", <<7>>), SeriesOf("x", <<8, 7>>), RepeatedIndex} : Emit(2, x)

NextRaise == EmitChunk \/ EmitKey

SpecRaise == InitRaise /\ [][NextRaise]_vars

GroupedFolds == FoldsOf("_accumulate_groupby_sum") \cup FoldsOf("_accumulate_groupby_mean")

\* Whether the function of fold n raises on chunk c.
Raises(n, c) == IsError(FoldFunc(nodes[n].func, nodes[n].state, c))

\* The chunks fold n has seen on which grouping does not raise.
Groupable(n) ==
    SelectSeq(Seen(n), LAMBDA c : ~IsError(Grouped(c, nodes[n].func.grouper, nodes[n].func.index)))

\* The grouping of the concatenation of the chunks cs, each with its keys.
GroupedOver(n, cs) ==
    GroupSelect(GroupBy(ConcatAll([i \in 1..Len(cs) |-> Keyed(cs[i])]),
                        IF nodes[n].func.grouper.k = "None" THEN KeyName("w")
                        ELSE nodes[n].func.grouper),
                nodes[n].func.index)

\* The aggregate fold n computes, of a grouping.
AggregateOf(n, g) ==
    IF nodes[n].func.fn = "_accumulate_groupby_sum" THEN GroupSum(g) ELSE GroupMean(g)

\* C16: when the function of a fold raises on a chunk, the emit that
\* brought the chunk raises that error and the fold's state and outputs are
\* left as they were; so the fold's outputs are always those of the chunks
\* on which it did not raise, as if the others had never come.
C16_FailedStepKeepsState ==
    /\ [](\A n \in GroupedFolds :
            /\ Len(nodes[n].out) = Len(Groupable(n))
            /\ \A k \in 1..Len(Groupable(n)) :
                  nodes[n].out[k] = AggregateOf(n, GroupedOver(n, SubSeq(Groupable(n), 1, k))))
    /\ [][\A n \in GroupedFolds :
            (Len(Seen(n)') = Len(Seen(n)) + 1 /\ Raises(n, Last(Seen(n)'))) =>
                /\ exc' = FoldFunc(nodes[n].func, nodes[n].state, Last(Seen(n)'))
                /\ nodes'[n].state = nodes[n].state
                /\ nodes'[n].out = nodes[n].out]_vars

\* A grouped fold that raised on the first chunk it was given and has
\* taken the second: one output for two chunks, that of the second alone.
C16_Witness ==
    \E n \in GroupedFolds :
        /\ Len(Seen(n)) = 2
        /\ IsError(Grouped(Seen(n)[1], nodes[n].func.grouper, nodes[n].func.index))
        /\ Len(nodes[n].out) = 1
        /\ nodes[n].out[1] = AggregateOf(n, Grouped(Seen(n)[2], nodes[n].func.grouper,
                                                   nodes[n].func.index))
        /\ exc.k = "None"

\* The folds of the running and grouped aggregates.
Aggregates ==
    FoldsOf("_accumulate_sum") \cup FoldsOf("_accumulate_mean") \cup GroupedFolds

\* The handle a fold's upstream node was derived as.
ParentOf(n) == handles[CHOOSE p \in AllHandles : handles[p].stream = nodes[n].ups[1]]

\* The start each aggregate names in its call.
FreshStart(n) ==
    CASE nodes[n].func.fn = "_accumulate_sum" -> PyInt(0)
      [] nodes[n].func.fn = "_accumulate_mean" -> MeanStart(ParentOf(n))
      [] nodes[n].func.fn = "_accumulate_groupby_sum" -> PyInt(0)
      [] OTHER -> PyTuple(<<PyInt(0), PyInt(0)>>)

\* One step of a fold run by itself on [state, out].
Stepped(n, prev, result) ==
    IF IsError(result) THEN prev
    ELSE IF nodes[n].returns_state
    THEN [state |-> result.items[1], out |-> Append(prev.out, result.items[2])]
    ELSE [state |-> result, out |-> Append(prev.out, result)]

SteppedFrom(n, prev, x) == Stepped(n, prev, FoldFunc(nodes[n].func, prev.state, x))

RECURSIVE Alone(_, _)
\* Fold n run by itself from its start over the first k chunks it has seen.
Alone(n, k) ==
    IF k = 0 THEN [state |-> FreshStart(n), out |-> <<>>]
    ELSE SteppedFrom(n, Alone(n, k - 1), Seen(n)[k])

\* C17: every aggregate, however many were derived from the same handle,
\* holds the state and has shown the outputs it would have run by itself
\* from the start its call names; a fold function leaves the object it was
\* given as it was; and no call changes a handle already held.
C17_Isolation ==
    /\ [](\A n \in Aggregates :
            /\ nodes[n].state = Alone(n, Len(Seen(n))).state
            /\ nodes[n].out = Alone(n, Len(Seen(n))).out)
    /\ [][/\ \A h \in AllHandles : handles'[h] = handles[h]
          /\ \A n \in Aggregates :
                Len(Seen(n)') = Len(Seen(n)) + 1 =>
                    Left(nodes[n].func, nodes[n].state, Last(Seen(n)')) = nodes[n].state]_vars

\* A running sum and a running mean of the same handle, each two chunks on.
C17_Witness ==
    \E a \in FoldsOf("_accumulate_sum"), b \in FoldsOf("_accumulate_mean") :
        /\ nodes[a].ups = nodes[b].ups
        /\ Len(nodes[a].out) = 2
        /\ Len(nodes[b].out) = 2
        /\ nodes[b].state # FreshStart(b)
        /\ nodes[b].out[2] # nodes[a].out[2]

(***************************************************************************)
(* SpecSelf: h.groupby(h[key])[index].sum() or .mean(): the keys are a     *)
(* column of the root's own chunks; chunks are emitted on the root.        *)
(***************************************************************************)
ThenGetItem(P, h, index) == Then(P, __getitem__(P.nodes, P.handles[h], index))

InitSelf ==
    \E op \in {"sum", "mean"}, key \in {"x", "y"}, index \in {None, KeyName("y")} :
        Built(ThenGroupby(ThenGetItem(Sources, 1, KeyName(key)), op, 3, index))

NextSelf == EmitRoot

SpecSelf == InitSelf /\ [][NextSelf]_vars

\* The zip nodes that pair a node's chunks with a selection of the same node.
SelfZips ==
    {z \in 1..Len(nodes) :
        /\ nodes[z].op = "zip"
        /\ Len(nodes[z].ups) = 2
        /\ nodes[nodes[z].ups[2]].op = "map"
        /\ nodes[nodes[z].ups[2]].func.fn = "getitem"
        /\ nodes[nodes[z].ups[2]].ups = <<nodes[z].ups[1]>>}

\* The chunks the root of zip z has emitted.
RootOut(z) == nodes[nodes[z].ups[1]].out

\* C18: with the keys selected from the root itself, the zip has emitted
\* one pair per chunk emitted on the root by the time emit returns, the
\* k-th pair being the k-th chunk with the selection of that same chunk,
\* nothing is left queued, and the fold has shown one output per chunk.
C18_SelfKeyed ==
    \A z \in SelfZips :
        /\ Len(nodes[z].out) = Len(RootOut(z))
        /\ \A k \in 1..Len(RootOut(z)) :
               nodes[z].out[k] =
                   PyTuple(<<RootOut(z)[k],
                             GetItem(RootOut(z)[k], nodes[nodes[z].ups[2]].func.index)>>)
        /\ \A i \in 1..Len(nodes[z].buffers) : nodes[z].buffers[i] = <<>>
        /\ \A n \in GroupedFolds :
               nodes[n].ups = <<z>> => Len(nodes[n].out) = Len(RootOut(z))

\* Three chunks of different rows emitted on the root of a self-keyed fold.
C18_Witness ==
    \E z \in SelfZips : \E n \in GroupedFolds :
        /\ nodes[n].ups = <<z>>
        /\ Len(RootOut(z)) = 3
        /\ RootOut(z)[1] # RootOut(z)[2]
        /\ RootOut(z)[2] # RootOut(z)[3]
        /\ RootOut(z)[3].rows # <<>>
        /\ Len(nodes[n].out) = 3
        /\ nodes[n].out[3] # nodes[n].out[2]

\* The group keys that occur in a chunk a grouped fold has seen: the key
\* column of the chunk, or the streamed keys of the rows the chunk has.
ChunkKeys(n, c) ==
    IF nodes[n].func.grouper.k = "None"
    THEN (IF IsError(Keyed(c)) THEN {} ELSE Range(Col(Keyed(c), "w")) \ {NaN})
    ELSE Range(Col(c, nodes[n].func.grouper.name)) \ {NaN}

KeysUpTo(n, k) == UNION {ChunkKeys(n, Seen(n)[i]) : i \in 1..k}

\* C19: the group keys of the k-th output of a grouped sum or mean are the
\* keys that occurred in the first k chunks, those of the first chunk alone
\* at the first; so the keys of an output include those of the one before.
C19_KeysKept ==
    \A n \in GroupedFolds :
        /\ Len(nodes[n].out) = Len(Seen(n))
        /\ \A k \in 1..Len(nodes[n].out) :
               /\ Range(nodes[n].out[k].index) = KeysUpTo(n, k)
               /\ NoDuplicates(nodes[n].out[k].index)
               /\ k > 1 => Range(nodes[n].out[k - 1].index) \subseteq Range(nodes[n].out[k].index)
        /\ nodes[n].out # <<>> =>
               Range(nodes[n].out[1].index) = ChunkKeys(n, Seen(n)[1])

\* A group of the first chunk that the second chunk lacks is still there
\* after the second, beside the group the second brought.
C19_Witness ==
    \E n \in GroupedFolds :
        /\ Len(nodes[n].out) >= 2
        /\ ChunkKeys(n, Seen(n)[1]) # {}
        /\ ChunkKeys(n, Seen(n)[2]) # {}
        /\ ChunkKeys(n, Seen(n)[1]) \cap ChunkKeys(n, Seen(n)[2]) = {}
        /\ Len(nodes[n].out[2].index) = 2

\* The keys of h[key] = value as a list: one name, or the names paired
\* with the columns of a frame value.
KeysOf(arg) ==
    IF arg.v # 0 /\ handles[arg.v].cls = "StreamingDataFrame"
    THEN SubSeq(arg.key, 1, Min(Len(arg.key), Len(handles[arg.v].example.columns)))
    ELSE <<arg.key>>

\* The column list after the assignment: the keys it did not have, appended.
Extended(columns, keys) ==
    columns \o SelectSeq(keys, LAMBDA c : ~Contains(columns, c))

\* C20: a successful h[key] = value leaves h's example with the column list
\* extended by the new keys; h.emit(x) with any other column list, that of
\* before the assignment included, raises IndexError and changes no node;
\* h.emit(x) with h's column list puts x on the node h is on now.
C20_EmitAfterAssign ==
    [][/\ (last'.op = "setitem" /\ exc'.k = "None") =>
             handles'[last'.self].example.columns =
                 Extended(handles[last'.self].example.columns, KeysOf(last'.arg))
       /\ (last'.op = "emit" /\ emits' = emits + 1) =>
             IF last'.arg.columns # handles[last'.self].example.columns
             THEN exc' = Error("IndexError") /\ nodes' = nodes
             ELSE /\ exc' # Error("IndexError")
                  /\ nodes'[handles[last'.self].stream].out =
                         Append(nodes[handles[last'.self].stream].out, last'.arg)]_vars

\* h has a column z from an assignment, and h.emit of a chunk with the
\* columns x, y has just been refused.
C20_Witness ==
    /\ last.op = "emit" /\ last.self = 1
    /\ last.arg.columns = XY
    /\ handles[1].example.columns = <<"x", "y", "z">>
    /\ handles[1].stream > 1
    /\ exc = Error("IndexError")
    /\ \A n \in 1..Len(nodes) : nodes[n].out = <<>>

=============================================================================
